---- MODULE Spec2Model ----
(***************************************************************************)
(* SincGames: change detection, snapshot capture, backup upload and        *)
(* restore of save directories.                                            *)
(*                                                                         *)
(*   electron/services/save-sync.mjs     SaveSyncService (watch, debounce, *)
(*                                       process gate, capture)            *)
(*   electron/main (unnamed/part_003)    handleSnapshotCaptured,           *)
(*                                       persistOfflineSnapshot, IPC       *)
(*   google-drive (unnamed/part_002)     GoogleDriveService.uploadBackup   *)
(*   electron/services/restore-service.mjs  RestoreService                 *)
(*                                                                         *)
(* Every await of the code is a step boundary: what runs between two       *)
(* awaits is one atomic action.  Time is counted in ticks; a debounce      *)
(* timer carries the ticks left until it is due.  An asynchronous call     *)
(* that has returned leaves the table of calls in flight; its outcome is   *)
(* kept in `last` (capture) and `lastRestore` (restore).                   *)
(***************************************************************************)
EXTENDS Integers, Sequences, FiniteSets, TLC

\* ------------------------------------------------------------------ bounds
\* settle window (SYNC_STABILITY_WINDOW_MS) in ticks
SettleTicks == 1
\* scheduler specification: mutation events delivered and capture attempts
\* started, all entities together
SchedEvents == 2
SchedAttempts == 1
MaxSyncs == 3
\* session poll: the half seconds the clock runs over and the sessions
\* counted for one game
MaxClock == 4
MaxSessions == 2
\* capture specification: mutation events delivered and capture attempts
\* started
CapEvents == 1
CapAttempts == 1
\* sweep specification: entries of the restore-temp root
MaxEntries == 3
\* restore specification: restore calls started
MaxRestores == 1

\* --------------------------------------------------------------- constants
Games == {"g1", "g2"}
FileNames == {"f1", "f2"}
Contents == {"v1", "v2"}
Backends == {"drive", "mirror"}

\* a directory is a set of <<name, content>> pairs with distinct names;
\* NoDir (no directory of Dirs) stands for a path that does not exist
NoDir == {<<"", "absent">>}
Dirs == {d \in SUBSET (FileNames \X Contents) :
           \A x \in d, y \in d : x[1] = y[1] => x = y}
NamesOf(d) == {x[1] : x \in d}

VARIABLES
  procRunning,    \* [Games -> BOOLEAN]  the OS process table (environment)
  liveDir,        \* [Games -> Dirs \cup {NoDir}]  the live save directory
  driveAuth,      \* driveService.isAuthenticated()
  offlineDir,     \* state.offlineBackupDir is set
  monitoring,     \* the service is started (runtime.monitoringStarted)
  watchers,       \* SaveSyncService.watchers: entities with an open watcher
  timers,         \* timers scheduled in the event loop and not fired/cleared
  pendingTimers,  \* SaveSyncService.pendingTimers: [Games -> timer id | 0]
  sinceMutation,  \* [Games -> 0..SettleTicks] ticks since the last event
  nEvents,        \* mutation events delivered so far (event ids 1..nEvents)
  servedEvents,   \* events a timer-fired capture attempt has been started for
  dropped,        \* events whose timer a manual capture cancelled
  sysEvents,      \* sync:event messages emitted outside a capture attempt
  att,            \* capture attempts: sequence of attempt records
  last,           \* the capture attempt that returned most recently
  failedEarly,    \* snapshots whose upload failed before the latest pointer
  latestLocalSave,  \* state.games[g].latestLocalSave  (snapshot id | 0)
  latestRemoteSave, \* state.games[g].latestRemoteSave (snapshot id | 0)
  store,          \* [Backends -> [Games -> [artifacts, metadata, latest]]]
  archives,       \* content of the archives built: [snapshot id -> Dirs]
  snapGate,       \* [snapshot id -> what its attempt's process check saw]
  limits,         \* [events, attempts, restores]: the bounds of the run
  rst,            \* restore calls: sequence of restore records
  lastRestore,    \* the restore call that returned most recently
  stateGames,     \* ids of the entries of state.games
  remoteCatalog,  \* the stored catalog document (games.json / catalog.json)
  lastMerge,      \* the last mergeCloudCatalog call: state before, catalog
  sweep,          \* the retention sweep of the restore-temp root
  fp,             \* fingerprints computed for one set of matched files
  session,        \* state.games[g]: [currentlyRunning, sessionStartedAt]
  poll,           \* the pollRunningStates calls in flight, by caller
  savedState,     \* the persisted state document (state.json)
  scanRoots,      \* state.scanRoots: the watch roots
  library,        \* the files of the remote library folder, in listing order
  sync,           \* the syncCatalog call in flight and what the calls did
  ps,             \* the getProcessState call in flight or returned last
  gl,             \* one file of a tree and the selectors it is tested with
  conf,           \* [state, watcher]: the configuration of each entity in
                  \* state.games and in the object its watcher was opened with
  clock,          \* Date.now(), in half seconds
  totalPlaySeconds, \* state.games[g].totalPlaySeconds
  sessionsCounted \* how many sessions the totalPlaySeconds of g includes

schedVars == <<monitoring, watchers, timers, pendingTimers, sinceMutation,
               nEvents, servedEvents, dropped, sysEvents>>
\* the scheduler's state other than the timers and the handle map
schedRest == <<monitoring, watchers, sinceMutation, nEvents, servedEvents,
               dropped, sysEvents>>
attVars == <<att, last, failedEarly, snapGate>>
restoreVars == <<rst, lastRestore>>
catalogVars == <<stateGames, remoteCatalog, lastMerge, scanRoots>>
pollVars == <<session, poll, savedState>>
upsertVars == <<library, sync>>
sysVars == <<ps, gl>>
playVars == <<clock, totalPlaySeconds, sessionsCounted>>
auxVars == <<catalogVars, sweep, fp, pollVars, upsertVars, sysVars, conf,
             playVars>>
\* the same without the configuration
auxRest == <<catalogVars, sweep, fp, pollVars, upsertVars, sysVars, playVars>>
stateVars == <<latestLocalSave, latestRemoteSave, store>>
envVars == <<procRunning, liveDir, driveAuth, offlineDir, archives, limits>>
vars == <<procRunning, liveDir, driveAuth, offlineDir, monitoring, watchers,
          timers, pendingTimers, sinceMutation, nEvents, servedEvents,
          dropped, sysEvents, att, last, failedEarly, latestLocalSave,
          latestRemoteSave, store, archives, snapGate, limits, rst,
          lastRestore, stateGames, remoteCatalog, lastMerge, sweep,
          fp, session, poll, savedState, scanRoots, library, sync, ps, gl,
          conf, clock, totalPlaySeconds, sessionsCounted>>

EmptyStore == [b \in Backends |-> [g \in Games |->
                 [artifacts |-> {}, metadata |-> {}, latest |-> 0]]]

\* ------------------------------------------------------------ debounce timers
TimersOf(g) == {t \in timers : t.game = g}

\* setTimeout returns a handle no scheduled timer and no map entry holds
NewHandle(ts, pend) ==
  CHOOSE i \in 1..(Cardinality(ts) + Cardinality(Games) + 1) :
    /\ \A t \in ts : t.id # i
    /\ \A g \in Games : pend[g] # i
    /\ \A j \in 1..(i - 1) :
         (\E t \in ts : t.id = j) \/ (\E g \in Games : pend[g] = j)

\* clearTimeout(handle): the timer with that handle can no longer fire
ClearTimeout_Noop(ts, id) == ts
ClearTimeout(ts, id) == {t \in ts : t.id # id}

\* the mutation events a timer stands for and that no attempt has served yet
FreshOf(ts, id) == UNION {t.fresh : t \in {x \in ts : x.id = id}}

\* queueSnapshot(game): clear the previous timer of the entity, if the map
\* holds one, and schedule a new one for the settle window
QueueTimers_NoReplace(ts, pend, g, id, more) ==
  IF pend[g] # 0 /\ \E t \in ts : t.id = pend[g]
  THEN ts
  ELSE ts \cup {[id |-> id, game |-> g, remaining |-> SettleTicks,
                 fresh |-> more]}
QueueTimers(ts, pend, g, id, more) ==
  LET previous == pend[g]
      cleared == IF previous # 0 THEN ClearTimeout(ts, previous) ELSE ts
  IN cleared \cup {[id |-> id, game |-> g, remaining |-> SettleTicks,
                    fresh |-> FreshOf(ts, previous) \cup more]}

queueSnapshot(g, more) ==
  LET id == NewHandle(timers, pendingTimers)
  IN /\ timers' = QueueTimers(timers, pendingTimers, g, id, more)
     /\ pendingTimers' = [pendingTimers EXCEPT ![g] = id]

\* ------------------------------------------------------ entity configuration
\* what a capture reads from the game object it is given: the process it
\* checks (line 93), the root it enumerates and the selectors (line 112)
InitialConfig == [processName |-> "p1", savePath |-> "d1",
                  filePatterns |-> <<"**/*">>]
NoConf == [state |-> [g \in Games |-> InitialConfig],
           watcher |-> [g \in Games |-> InitialConfig]]

\* captureNow, line 40: the manual capture finds the entity in this.games,
\* the array persistState hands to setGames and game:update writes into
ManualConfig(g) == conf.state[g]

\* watchGame, lines 72-74, queueSnapshot, lines 85-87, and captureIfStable,
\* line 105: the timer callback is given the object the watcher of the
\* entity was opened with, and a rescheduled attempt passes it on
TimerConfig(g) == conf.watcher[g]

\* the callers of pollRunningStates: the interval timer of
\* startSessionPolling and the one-off timer game:launch sets; neither waits
\* for a call in flight
PollCallers == {"interval", "launch"}

\* state.games is given a new array: a loop in flight goes on over the array
\* it started with
ArrayReplaced(polls) ==
  [c \in PollCallers |-> [polls[c] EXCEPT !.same = FALSE]]

\* ------------------------------------------------------------ capture attempts
NewAttempt(g, manual, gap) ==
  [game |-> g, manual |-> manual, pc |-> "check", checked |-> "none",
   enumerated |-> FALSE, archived |-> FALSE, snap |-> 0, backend |-> "none",
   uploads |-> 0, storeWrites |-> 0, wroteState |-> FALSE, err |-> "none",
   failedAt |-> "none", ev |-> <<>>, gap |-> gap, prevLatest |-> 0,
   matched |-> -1, hashed |-> FALSE, unhandled |-> FALSE,
   cancelled |-> {}, config |-> InitialConfig, current |-> InitialConfig]

\* crypto.randomUUID(): attempt a names its snapshot SnapId(a); SnapId(0) is
\* a snapshot of an earlier session, 0 stands for null
SnapId(a) == a + 1

\* both backends hold the backup an earlier session uploaded
EarlierStore == [b \in Backends |-> [g \in Games |->
                   [artifacts |-> {SnapId(0)}, metadata |-> {SnapId(0)},
                    latest |-> SnapId(0)]]]

\* a call that has returned
Returned == [NewAttempt("g1", FALSE, 0) EXCEPT !.pc = "done"]
\* no call has returned yet
NoAttempt == [NewAttempt("g1", FALSE, 0) EXCEPT !.pc = "none"]

InFlight == {a \in DOMAIN att : att[a].pc # "done"}
\* the attempts whose fields are known: those in flight and the last returned
Known == {att[a] : a \in InFlight} \cup {last}

\* attempt a returns with record r
Return(a, r) ==
  /\ att' = [att EXCEPT ![a] = Returned]
  /\ last' = [r EXCEPT !.pc = "done"]

\* who receives the error captureIfStable throws: the caller of captureNow
\* awaits it; the timer callback of queueSnapshot (lines 85-87) awaits it
\* without a catch, so its promise rejects with nobody handling it
ErrorUnhandled(manual) == ~manual

Failed(a, why) == [att[a] EXCEPT !.err = why, !.failedAt = att[a].pc,
                                 !.unhandled = ErrorUnhandled(att[a].manual)]

Emit(a, kind) == Append(att[a].ev, kind)

\* what the caller of captureIfStable does with the entity's timer when the
\* call throws: the timer callback (lines 85-87) and captureNow (line 51)
\* only await the call, neither schedules anything
RescheduleOnError_Automatic(manual) == ~manual
RescheduleOnError(manual) == FALSE

\* attempt a throws with record r
Throw(a, r) ==
  /\ Return(a, r)
  /\ IF RescheduleOnError(att[a].manual)
     THEN queueSnapshot(att[a].game, {})
     ELSE UNCHANGED <<timers, pendingTimers>>

\* what a capture or a restore of entity g waits for, or is refused for,
\* because of the other calls on g: nothing.  captureNow (39-52), the timer
\* callback (85-87) and restoreLatestRemote (14-21) test the entity, its
\* backup record and its process, and take no lock
StartAllowed_Exclusive(g) ==
  /\ \A a \in DOMAIN att : att[a].pc = "done" \/ att[a].game # g
  /\ \A i \in DOMAIN rst : rst[i].pc = "done" \/ rst[i].game # g
StartAllowed(g) == TRUE

\* ---------------------------------------------------------------- environment
\* the game process starts or exits
SetProcess(g) ==
  /\ procRunning' = [procRunning EXCEPT ![g] = ~procRunning[g]]
  /\ UNCHANGED <<liveDir, driveAuth, offlineDir, archives, limits, schedVars,
                 attVars, stateVars, restoreVars, auxVars>>

ApplyWrite(d, op) ==
  LET others == {x \in d : x[1] # op[2]}
  IN IF op[1] = "write" THEN others \cup {<<op[2], op[3]>>} ELSE others

\* time passes: every scheduled timer gets one tick closer to being due
Tick ==
  /\ \E t \in timers : t.remaining > 0
  /\ timers' = {[t EXCEPT !.remaining = IF t.remaining > 0
                                         THEN t.remaining - 1 ELSE 0] :
                  t \in timers}
  /\ sinceMutation' = [g \in Games |->
        IF sinceMutation[g] < SettleTicks THEN sinceMutation[g] + 1
        ELSE SettleTicks]
  /\ UNCHANGED <<monitoring, watchers, pendingTimers, nEvents, servedEvents,
                 dropped, sysEvents, attVars, envVars, stateVars,
                 restoreVars, auxVars>>

\* ----------------------------------------------------------- SaveSyncService
\* watchGame: a watcher is opened when the save path exists, else a warning
WatchedGames(dirs) == {g \in Games : dirs[g] # NoDir}

\* sync:start / ensureMonitoringStarted: setGames, start (stop + watchGame*)
StartMonitoring ==
  /\ ~monitoring
  /\ monitoring' = TRUE
  /\ watchers' = WatchedGames(liveDir)
  /\ sysEvents' = sysEvents \cup
        {<<"warning", g>> : g \in Games \ WatchedGames(liveDir)}
  /\ conf' = [conf EXCEPT !.watcher = conf.state]
  /\ UNCHANGED <<timers, pendingTimers, sinceMutation, nEvents, servedEvents,
                 dropped, attVars, envVars, stateVars, restoreVars, auxRest>>

\* SaveSyncService.stop(), lines 31-37: every watcher is closed and the map
\* of watchers cleared; pendingTimers is not touched
StopMonitoring ==
  /\ monitoring
  /\ monitoring' = FALSE
  /\ watchers' = {}
  /\ UNCHANGED <<timers, pendingTimers, sinceMutation, nEvents, servedEvents,
                 dropped, sysEvents, attVars, envVars, stateVars, restoreVars,
                 auxVars>>

\* a file of a watched save directory changes and the watcher's "all"
\* callback runs: queueSnapshot(game)
Mutation(g, op) ==
  /\ g \in watchers
  /\ liveDir[g] # NoDir
  /\ nEvents < limits.events
  /\ op[1] = "delete" => op[2] \in NamesOf(liveDir[g])
  /\ liveDir' = [liveDir EXCEPT ![g] = ApplyWrite(liveDir[g], op)]
  /\ nEvents' = nEvents + 1
  /\ sinceMutation' = [sinceMutation EXCEPT ![g] = 0]
  /\ queueSnapshot(g, {nEvents + 1})
  /\ UNCHANGED <<monitoring, watchers, servedEvents, dropped, sysEvents,
                 attVars, procRunning, driveAuth, offlineDir, archives,
                 limits, stateVars, restoreVars, auxVars>>

\* the timer callback of queueSnapshot runs: captureIfStable(game) starts
TimerFire(t) ==
  /\ t \in timers
  /\ t.remaining = 0
  /\ Len(att) < limits.attempts
  /\ StartAllowed(t.game)
  /\ timers' = timers \ {t}
  /\ servedEvents' = servedEvents \cup t.fresh
  /\ att' = Append(att, [NewAttempt(t.game, FALSE, sinceMutation[t.game])
                          EXCEPT !.config = TimerConfig(t.game),
                                 !.current = ManualConfig(t.game)])
  /\ UNCHANGED <<monitoring, watchers, pendingTimers, sinceMutation, nEvents,
                 dropped, sysEvents, last, failedEarly, snapGate, envVars,
                 stateVars, restoreVars, auxVars>>

\* sync:backup-now -> captureNow(gameId): cancel the pending timer, then
\* captureIfStable(game, {manual: true})
CancelPending_Keep(ts, pend, g) == ts
CancelPending(ts, pend, g) ==
  IF pend[g] # 0 THEN ClearTimeout(ts, pend[g]) ELSE ts

CaptureNow(g) ==
  /\ Len(att) < limits.attempts
  /\ StartAllowed(g)
  /\ timers' = CancelPending(timers, pendingTimers, g)
  /\ pendingTimers' = [pendingTimers EXCEPT ![g] = 0]
  /\ dropped' = dropped \cup FreshOf(timers, pendingTimers[g])
  /\ att' = Append(att, [NewAttempt(g, TRUE, SettleTicks) EXCEPT
                           !.cancelled = FreshOf(timers, pendingTimers[g]),
                           !.config = ManualConfig(g),
                           !.current = ManualConfig(g)])
  /\ UNCHANGED <<monitoring, watchers, sinceMutation, nEvents, servedEvents,
                 sysEvents, last, failedEarly, snapGate, envVars, stateVars,
                 restoreVars, auxVars>>

\* what captureIfStable does once isProcessRunning has answered `running`:
\* "stop" (manual, throws), "retry" (automatic, reschedules) or "go"
GateDecision_Open(running, manual) == "go"
GateDecision_NoRetry(running, manual) ==
  IF running THEN "stop" ELSE "go"
GateDecision_ManualGoes(running, manual) ==
  IF running /\ ~manual THEN "retry" ELSE "go"
GateDecision(running, manual) ==
  IF running THEN (IF manual THEN "stop" ELSE "retry") ELSE "go"

\* captureIfStable, lines 93-110: the process gate
CheckProcess(a) ==
  /\ att[a].pc = "check"
  /\ LET g == att[a].game
         d == GateDecision(procRunning[g], att[a].manual)
         seen == IF procRunning[g] THEN "running" ELSE "closed"
     IN \/ /\ d = "retry"
           /\ queueSnapshot(g, {})
           /\ Return(a, [att[a] EXCEPT !.checked = seen,
                                       !.ev = Emit(a, "info")])
        \/ /\ d = "stop"
           /\ Return(a, [Failed(a, "running") EXCEPT
                           !.checked = seen, !.ev = Emit(a, "info")])
           /\ UNCHANGED <<timers, pendingTimers>>
        \/ /\ d = "go"
           /\ att' = [att EXCEPT ![a].pc = "collect", ![a].checked = seen]
           /\ UNCHANGED <<timers, pendingTimers, last>>
  /\ UNCHANGED <<monitoring, watchers, sinceMutation, nEvents, servedEvents,
                 dropped, sysEvents, failedEarly, snapGate, envVars,
                 stateVars, restoreVars, auxVars>>

\* isProcessRunning rejects (tasklist could not be run)
CheckProcessFails(a) ==
  /\ att[a].pc = "check"
  /\ Throw(a, [Failed(a, "oracle") EXCEPT !.checked = "error"])
  /\ UNCHANGED <<schedRest, failedEarly, snapGate, envVars, stateVars,
                 restoreVars, auxVars>>

\* captureIfStable, lines 112-116: collectFiles and the zero-file check
CollectOutcome_AllowEmpty(d) == IF d = NoDir THEN "io" ELSE "ok"
CollectOutcome(d) ==
  IF d = NoDir THEN "io" ELSE IF d = {} THEN "noFiles" ELSE "ok"

CollectFiles(a) ==
  /\ att[a].pc = "collect"
  /\ LET d == liveDir[att[a].game]
         o == CollectOutcome(d)
     IN IF o = "io"
        THEN Throw(a, [Failed(a, "io") EXCEPT !.enumerated = TRUE])
        ELSE IF o = "noFiles"
        THEN Throw(a, [Failed(a, "noFiles") EXCEPT
                         !.enumerated = TRUE, !.matched = Cardinality(d)])
        ELSE /\ att' = [att EXCEPT ![a].pc = "archive",
                                   ![a].enumerated = TRUE,
                                   ![a].matched = Cardinality(d)]
             /\ UNCHANGED <<last, timers, pendingTimers>>
  /\ UNCHANGED <<schedRest, failedEarly, snapGate, envVars, stateVars,
                 restoreVars, auxVars>>

\* the three writes of uploadBackup (remote store) and persistOfflineSnapshot
\* (local mirror), in the order the code awaits them
UploadOrder == <<"upArtifact", "upMeta", "upLatest", "uploaded">>

\* handleSnapshotCaptured picks the backend by capability
ChooseBackend_MirrorFirst(auth, offline) ==
  IF offline THEN "mirror" ELSE IF auth THEN "drive" ELSE "none"
ChooseBackend(auth, offline) ==
  IF auth THEN "drive" ELSE IF offline THEN "mirror" ELSE "none"

\* captureIfStable, lines 118-143: hashFiles, createArchive, the snapshot
\* event, and handleSnapshotCaptured up to its first await
Archive(a) ==
  /\ att[a].pc = "archive"
  /\ LET g == att[a].game
         b == ChooseBackend(driveAuth, offlineDir)
     IN IF liveDir[g] = NoDir
        THEN /\ Throw(a, Failed(a, "io"))
             /\ UNCHANGED <<archives, snapGate, latestLocalSave, poll>>
        ELSE /\ archives' = (SnapId(a) :> liveDir[g]) @@ archives
             /\ poll' = ArrayReplaced(poll)
             /\ snapGate' = (SnapId(a) :> att[a].checked) @@ snapGate
             /\ latestLocalSave' = [latestLocalSave EXCEPT ![g] = SnapId(a)]
             /\ att' = [att EXCEPT
                  ![a].hashed = TRUE,
                  ![a].archived = TRUE,
                  ![a].snap = SnapId(a),
                  ![a].wroteState = TRUE,
                  ![a].backend = b,
                  ![a].uploads = IF b = "none" THEN 0 ELSE 1,
                  ![a].prevLatest = IF b = "none" THEN 0
                                    ELSE store[b][g].latest,
                  ![a].ev = IF b = "none"
                            THEN att[a].ev \o <<"snapshot", "warning">>
                            ELSE Emit(a, "snapshot"),
                  ![a].pc = IF b = "none" THEN "persist" ELSE UploadOrder[1]]
             /\ UNCHANGED <<last, timers, pendingTimers>>
  /\ UNCHANGED <<schedRest, failedEarly, procRunning, liveDir, driveAuth,
                 offlineDir, limits, latestRemoteSave, store, restoreVars,
                 catalogVars, sweep, fp, session, savedState, upsertVars,
                 sysVars, conf, playVars>>

\* -------------------------------------------------------------- backup store
NextUploadPc(pc) ==
  LET i == CHOOSE k \in 1..3 : UploadOrder[k] = pc IN UploadOrder[i + 1]

StoreWrite(st, b, g, pc, id) ==
  CASE pc = "upArtifact" ->
         [st EXCEPT ![b][g].artifacts = st[b][g].artifacts \cup {id}]
    [] pc = "upMeta" ->
         [st EXCEPT ![b][g].metadata = st[b][g].metadata \cup {id}]
    [] pc = "upLatest" ->
         [st EXCEPT ![b][g].latest = id]

\* one write of the upload completes: the archive artifact (uploadFile /
\* copyFile), the metadata document, or the per-entity latest pointer
UploadStep(a) ==
  /\ att[a].pc \in {"upArtifact", "upMeta", "upLatest"}
  /\ store' = StoreWrite(store, att[a].backend, att[a].game, att[a].pc,
                         att[a].snap)
  /\ att' = [att EXCEPT ![a].pc = NextUploadPc(att[a].pc),
                        ![a].storeWrites = att[a].storeWrites + 1]
  /\ UNCHANGED <<schedVars, last, failedEarly, snapGate, envVars,
                 latestLocalSave, latestRemoteSave, restoreVars, auxVars>>

\* after a rejected write the upload goes on ("resume") or the error leaves
\* uploadBackup / persistOfflineSnapshot, handleSnapshotCaptured and
\* captureIfStable ("throw")
OnWriteError_Resume(pc) == IF pc = "upLatest" THEN "throw" ELSE "resume"
OnWriteError(pc) == "throw"

UploadStepFails(a) ==
  /\ att[a].pc \in {"upArtifact", "upMeta", "upLatest"}
  /\ IF OnWriteError(att[a].pc) = "throw"
     THEN /\ Throw(a, Failed(a, "upload"))
          /\ failedEarly' = IF att[a].pc = "upLatest" THEN failedEarly
                            ELSE failedEarly \cup {att[a].snap}
     ELSE /\ att' = [att EXCEPT ![a].pc = NextUploadPc(att[a].pc)]
          /\ failedEarly' = failedEarly \cup {att[a].snap}
          /\ UNCHANGED <<last, timers, pendingTimers>>
  /\ UNCHANGED <<schedRest, snapGate, envVars, stateVars, restoreVars, auxVars>>

\* a catalog document: whether the file exists, whether it has scan roots,
\* whether `games` is an array, the ids of its games and their save fields
\* (0 stands for null or a missing field)
NoSaves == [g \in Games |-> 0]
\* no play time has been recorded
NoPlay == [g \in Games |-> 0]

\* the volatile runtime fields of a game: currentlyRunning and
\* sessionStartedAt (0 stands for null, 1 for the time the session started)
ClearedSession == [currentlyRunning |-> FALSE, sessionStartedAt |-> 0]
RunningSession == [currentlyRunning |-> TRUE, sessionStartedAt |-> 1]
NoSessions == [g \in Games |-> ClearedSession]

NoCatalog == [exists |-> FALSE, hasRoots |-> FALSE, hasGames |-> FALSE,
              ids |-> {}, latestLocalSave |-> NoSaves,
              latestRemoteSave |-> NoSaves, session |-> NoSessions,
              scanRoots |-> {}, config |-> NoConf.state,
              totalPlaySeconds |-> NoPlay, sessionsCounted |-> NoPlay]

\* serializeCatalog: every game of the state with currentlyRunning: false,
\* sessionStartedAt: null and latestLocalSave: null
serializeCatalog_KeepRuntime ==
  [exists |-> TRUE, hasRoots |-> TRUE, hasGames |-> TRUE, ids |-> stateGames,
   latestLocalSave |-> NoSaves,
   latestRemoteSave |-> [g \in Games |-> IF g \in stateGames
                                          THEN latestRemoteSave[g] ELSE 0],
   session |-> session, scanRoots |-> scanRoots, config |-> conf.state,
   totalPlaySeconds |-> totalPlaySeconds,
   sessionsCounted |-> sessionsCounted]
serializeCatalog ==
  [exists |-> TRUE, hasRoots |-> TRUE, hasGames |-> TRUE, ids |-> stateGames,
   latestLocalSave |-> NoSaves,
   latestRemoteSave |-> [g \in Games |-> IF g \in stateGames
                                          THEN latestRemoteSave[g] ELSE 0],
   session |-> NoSessions, scanRoots |-> scanRoots, config |-> conf.state,
   totalPlaySeconds |-> totalPlaySeconds,
   sessionsCounted |-> sessionsCounted]

\* the document stateStore.save writes: the games of the state as they are
StateDoc ==
  [ids |-> stateGames, latestLocalSave |-> latestLocalSave,
   latestRemoteSave |-> latestRemoteSave, session |-> session,
   config |-> conf.state, totalPlaySeconds |-> totalPlaySeconds,
   sessionsCounted |-> sessionsCounted]


\* persistState: syncOfflineCatalog writes the mirror catalog when an offline
\* backup directory is set, syncCatalog the remote one when asked to and
\* authenticated
PersistedCatalogs(syncCloud) ==
  [b \in Backends |->
     IF (b = "mirror" /\ offlineDir) \/ (b = "drive" /\ syncCloud /\ driveAuth)
     THEN serializeCatalog ELSE remoteCatalog[b]]

\* handleSnapshotCaptured after the upload returned: the remote branch
\* records upload.metadata in state.games, the mirror branch records nothing
RecordsRemote(b) == b = "drive"

UploadReturn(a) ==
  /\ att[a].pc = "uploaded"
  /\ LET g == att[a].game
     IN /\ latestLocalSave' =
             IF att[a].backend = "drive"
             THEN [latestLocalSave EXCEPT ![g] = att[a].snap]
             ELSE latestLocalSave
        /\ latestRemoteSave' =
             IF RecordsRemote(att[a].backend)
             THEN [latestRemoteSave EXCEPT ![g] = att[a].snap]
             ELSE latestRemoteSave
  /\ att' = [att EXCEPT ![a].pc = "persist", ![a].ev = Emit(a, "info")]
  /\ remoteCatalog' = IF att[a].backend = "mirror"
                      THEN [remoteCatalog EXCEPT !["mirror"] = serializeCatalog]
                      ELSE remoteCatalog
  /\ poll' = IF att[a].backend = "drive" THEN ArrayReplaced(poll) ELSE poll
  /\ UNCHANGED <<schedVars, last, failedEarly, snapGate, envVars, store,
                 restoreVars, stateGames, lastMerge, scanRoots, sweep, fp,
                 upsertVars, sysVars, conf, playVars, session, savedState>>

\* persistState at the end of handleSnapshotCaptured, then captureIfStable
\* returns the snapshot; a manual caller's handler then emits its info event
Persist(a) ==
  /\ att[a].pc = "persist"
  /\ Return(a, [att[a] EXCEPT !.ev = IF att[a].manual THEN Emit(a, "info")
                                     ELSE att[a].ev])
  /\ savedState' = StateDoc
  /\ remoteCatalog' = PersistedCatalogs(driveAuth)
  /\ UNCHANGED <<schedVars, failedEarly, snapGate, envVars, stateVars,
                 restoreVars, stateGames, lastMerge, scanRoots, sweep, fp, upsertVars, sysVars, conf, playVars, session,
                 poll>>

PersistFails(a) ==
  /\ att[a].pc = "persist"
  /\ Throw(a, Failed(a, "persist"))
  /\ UNCHANGED <<schedRest, failedEarly, snapGate, envVars, stateVars,
                 restoreVars, auxVars>>

\* game:update, line 837: the entry of the array state.games holds is
\* replaced; a loop running over that array reads the new entry when it gets
\* to it
EntryReplaced(polls, g, config) ==
  [c \in PollCallers |->
     IF /\ polls[c].pc = "query"
        /\ polls[c].same
        /\ \E k \in 2..Len(polls[c].todo) : polls[c].todo[k] = g
     THEN [polls[c] EXCEPT !.games.session[g] = ClearedSession,
                           !.games.config[g] = config,
                           !.updated.session[g] = ClearedSession,
                           !.updated.config[g] = config]
     ELSE polls[c]]

\* game:update, lines 818-840: the fields the payload gives replace those of
\* the entry, the others are kept
UpdatedConfig(current, payload) ==
  [processName |-> IF payload.processName # "" THEN payload.processName
                   ELSE current.processName,
   savePath |-> IF payload.savePath # "" THEN payload.savePath
                ELSE current.savePath,
   filePatterns |-> IF Len(payload.filePatterns) > 0
                    THEN payload.filePatterns ELSE current.filePatterns]

\* game:update: the entry of state.games is replaced in place by the
\* normalized record (runtime fields cleared, lines 467-468), then
\* persistState({syncCloud: true}) saves the state, hands state.games to
\* setGames and writes the catalogs
GameUpdate(g, payload) ==
  /\ g \in stateGames
  /\ conf' = [conf EXCEPT !.state[g] = UpdatedConfig(conf.state[g], payload)]
  /\ session' = [session EXCEPT ![g] = ClearedSession]
  /\ poll' = EntryReplaced(poll, g, UpdatedConfig(conf.state[g], payload))
  /\ UNCHANGED <<schedVars, attVars, envVars, stateVars, restoreVars,
                 stateGames, lastMerge, scanRoots, sweep, fp, upsertVars,
                 sysVars, playVars>>
  /\ savedState' = StateDoc'
  /\ remoteCatalog' =
       [b \in Backends |->
          IF (b = "mirror" /\ offlineDir) \/ (b = "drive" /\ driveAuth)
          THEN serializeCatalog' ELSE remoteCatalog[b]]

\* ------------------------------------------------------------ session poll
\* the order of the entries of state.games
GameOrder == <<"g1", "g2">>
GamesIn(ids) == SelectSeq(GameOrder, LAMBDA g : g \in ids)

NoGames == [ids |-> {}, latestLocalSave |-> NoSaves,
            latestRemoteSave |-> NoSaves, session |-> NoSessions,
            config |-> NoConf.state, totalPlaySeconds |-> NoPlay,
            sessionsCounted |-> NoPlay]
NoPoll == [pc |-> "idle", games |-> NoGames, todo |-> <<>>,
           changed |-> FALSE, updated |-> NoGames, now |-> 0, same |-> FALSE]
NoPolls == [c \in PollCallers |-> NoPoll]
PollsInFlight == {c \in PollCallers : poll[c].pc # "idle"}

\* pollRunningStates, lines 522-528: now is read once, the loop runs over
\* the array state.games holds when the call starts, and updatedGames is
\* built from its entries
PollStart(c) ==
  /\ poll[c].pc = "idle"
  /\ stateGames # {}
  /\ \A g \in Games : sessionsCounted[g] < MaxSessions
  /\ poll' = [poll EXCEPT ![c] =
                [pc |-> "query", games |-> StateDoc,
                 todo |-> GamesIn(stateGames), changed |-> FALSE,
                 updated |-> StateDoc, now |-> clock, same |-> TRUE]]
  /\ UNCHANGED <<schedVars, attVars, restoreVars, stateVars, envVars,
                 catalogVars, sweep, fp, upsertVars, sysVars, conf, playVars,
                 session, savedState>>

\* the entry of game g in an array of games, and the array with that entry
\* replaced
Entry(games, g) ==
  [currentlyRunning |-> games.session[g].currentlyRunning,
   sessionStartedAt |-> games.session[g].sessionStartedAt,
   totalPlaySeconds |-> games.totalPlaySeconds[g],
   sessionsCounted |-> games.sessionsCounted[g]]
WithEntry(games, g, e) ==
  [games EXCEPT
     !.session[g] = [currentlyRunning |-> e.currentlyRunning,
                     sessionStartedAt |-> e.sessionStartedAt],
     !.totalPlaySeconds[g] = e.totalPlaySeconds,
     !.sessionsCounted[g] = e.sessionsCounted]

\* Math.round(x / 1000) of a number of half seconds, and Math.max
Round(halves) == (halves + 1) \div 2
Max(a, b) == IF a > b THEN a ELSE b

\* lines 540-541: the start of the session, now when it is unknown, and the
\* seconds elapsed since
StartedAt(game, now) ==
  IF game.sessionStartedAt # 0 THEN game.sessionStartedAt ELSE now
ElapsedSeconds(game, now) == Max(0, Round(now - StartedAt(game, now)))

\* lines 530-553: the entry pushed to updatedGames
Polled(game, running, now) ==
  IF running /\ ~game.currentlyRunning
  THEN [game EXCEPT !.currentlyRunning = TRUE, !.sessionStartedAt = now]
  ELSE IF ~running /\ game.currentlyRunning
  THEN [game EXCEPT
          !.currentlyRunning = FALSE,
          !.sessionStartedAt = 0,
          !.totalPlaySeconds = game.totalPlaySeconds
                                 + ElapsedSeconds(game, now),
          !.sessionsCounted = game.sessionsCounted + 1]
  ELSE game

\* line 559: the array the state gets once the loop is over
AssignedGames(updatedGames) == updatedGames

\* one isProcessRunning query of the loop resolves; after the last one,
\* lines 556-560: return when nothing changed, else state.games = updatedGames
PollQuery(c) ==
  /\ poll[c].pc = "query"
  /\ LET p == poll[c]
         g == Head(p.todo)
         game == Entry(p.games, g)
         updated == WithEntry(p.updated, g,
                              Polled(game, procRunning[g], p.now))
         changed == p.changed \/ procRunning[g] # game.currentlyRunning
         assigned == AssignedGames(updated)
     IN IF Tail(p.todo) # <<>>
        THEN /\ poll' = [poll EXCEPT ![c] =
                           [p EXCEPT !.todo = Tail(p.todo),
                                     !.updated = updated,
                                     !.changed = changed]]
             /\ UNCHANGED <<stateGames, latestLocalSave, latestRemoteSave,
                            session, conf, totalPlaySeconds, sessionsCounted>>
        ELSE IF ~changed
        THEN /\ poll' = [poll EXCEPT ![c] = NoPoll]
             /\ UNCHANGED <<stateGames, latestLocalSave, latestRemoteSave,
                            session, conf, totalPlaySeconds, sessionsCounted>>
        ELSE /\ poll' = [ArrayReplaced(poll) EXCEPT
                           ![c] = [NoPoll EXCEPT !.pc = "save"]]
             /\ stateGames' = assigned.ids
             /\ latestLocalSave' = assigned.latestLocalSave
             /\ latestRemoteSave' = assigned.latestRemoteSave
             /\ session' = assigned.session
             /\ conf' = [conf EXCEPT !.state = assigned.config]
             /\ totalPlaySeconds' = assigned.totalPlaySeconds
             /\ sessionsCounted' = assigned.sessionsCounted
  /\ UNCHANGED <<schedVars, attVars, restoreVars, store, envVars,
                 remoteCatalog, lastMerge, scanRoots, sweep, fp, upsertVars,
                 sysVars, clock, savedState>>

\* persistState({ syncCloud: false }), line 258: stateStore.save writes the
\* state as it is when the document is built
PollSave(c) ==
  /\ poll[c].pc = "save"
  /\ savedState' = StateDoc
  /\ poll' = [poll EXCEPT ![c].pc = IF offlineDir THEN "catalog" ELSE "idle"]
  /\ UNCHANGED <<schedVars, attVars, restoreVars, stateVars, envVars,
                 catalogVars, sweep, fp, upsertVars, sysVars, conf, playVars,
                 session>>

\* persistState, lines 261-263: syncOfflineCatalog writes the mirror catalog
PollCatalog(c) ==
  /\ poll[c].pc = "catalog"
  /\ remoteCatalog' = PersistedCatalogs(FALSE)
  /\ poll' = [poll EXCEPT ![c] = NoPoll]
  /\ UNCHANGED <<schedVars, attVars, restoreVars, stateVars, envVars,
                 stateGames, lastMerge, scanRoots, sweep, fp, upsertVars,
                 sysVars, conf, playVars, session, savedState>>

\* a process query or a write of persistState rejects: the call ends there
\* (its callers discard the promise)
PollFails(c) ==
  /\ poll[c].pc \in {"query", "save", "catalog"}
  /\ poll' = [poll EXCEPT ![c] = NoPoll]
  /\ UNCHANGED <<schedVars, attVars, restoreVars, stateVars, envVars,
                 catalogVars, sweep, fp, upsertVars, sysVars, conf, playVars,
                 session, savedState>>

\* Date.now() moves on by half a second
ClockTick ==
  /\ clock < MaxClock
  /\ clock' = clock + 1
  /\ UNCHANGED <<schedVars, attVars, restoreVars, stateVars, envVars,
                 catalogVars, sweep, fp, pollVars, upsertVars, sysVars, conf,
                 totalPlaySeconds, sessionsCounted>>

\* the system clock is set back by half a second
ClockSetBack ==
  /\ clock > 1
  /\ clock' = clock - 1
  /\ UNCHANGED <<schedVars, attVars, restoreVars, stateVars, envVars,
                 catalogVars, sweep, fp, pollVars, upsertVars, sysVars, conf,
                 totalPlaySeconds, sessionsCounted>>

\* ------------------------------------------------------------ RestoreService
\* one call of restoreLatestRemote(game)
NewRestore(g, record, pre) ==
  [game |-> g, pc |-> "check", record |-> record, checked |-> "none",
   workspace |-> FALSE, safety |-> NoDir, todo |-> {}, touched |-> FALSE,
   primary |-> "none", rollback |-> "none", thrown |-> {}, ev |-> <<>>,
   pre |-> pre, after |-> NoDir, alone |-> TRUE,
   created |-> FALSE, downloaded |-> FALSE, hadLive |-> FALSE,
   result |-> [restoredAt |-> "none", tempBackupDir |-> "none"]]

ReturnedRestore == [NewRestore("g1", 0, NoDir) EXCEPT !.pc = "done"]
NoRestore == [NewRestore("g1", 0, NoDir) EXCEPT !.pc = "none"]

RestoresInFlight == {i \in DOMAIN rst : rst[i].pc # "done"}
KnownRestores == {rst[i] : i \in RestoresInFlight} \cup {lastRestore}

\* another call writes the live directory of the entity under call i
Disturb(rs, i) ==
  [j \in DOMAIN rs |->
     IF j # i /\ rs[j].pc # "done" /\ rs[j].game = rs[i].game
     THEN [rs[j] EXCEPT !.alone = FALSE] ELSE rs[j]]

\* call i goes on with record r
RestoreGoes(i, r) ==
  /\ rst' = [rst EXCEPT ![i] = r]
  /\ UNCHANGED lastRestore

\* call i returns or throws with record r, the live directory being d
RestoreReturns(i, r, d) ==
  /\ rst' = [rst EXCEPT ![i] = ReturnedRestore]
  /\ lastRestore' = [r EXCEPT !.pc = "done", !.todo = {}, !.after = d]

restoreFrame == <<schedVars, attVars, stateVars, procRunning, driveAuth,
                  offlineDir, archives, limits, auxVars>>
restoreWriteFrame == <<monitoring, watchers, nEvents, servedEvents, dropped,
                       sysEvents, attVars, stateVars, procRunning, driveAuth,
                       offlineDir, archives, limits, auxVars>>

\* watchGame, lines 72-74: the watcher of an entity reports every change
\* under its save path, whoever made it, and queues a snapshot
WatcherSees(g) ==
  IF g \in watchers
  THEN /\ queueSnapshot(g, {})
       /\ sinceMutation' = [sinceMutation EXCEPT ![g] = 0]
  ELSE UNCHANGED <<timers, pendingTimers, sinceMutation>>

\* line 15: the precondition on the remote backup record
HasRemoteBackup(record) == record # 0

\* game:restore-latest -> restoreLatestRemote(game), up to the first await
RestoreLatestRemote(g) ==
  /\ Len(rst) < limits.restores
  /\ StartAllowed(g)
  /\ LET r == NewRestore(g, latestRemoteSave[g], liveDir[g])
     IN IF HasRemoteBackup(r.record)
        THEN /\ rst' = Append(rst, r)
             /\ UNCHANGED lastRestore
        ELSE /\ rst' = Append(rst, ReturnedRestore)
             /\ lastRestore' = [r EXCEPT !.pc = "done",
                                         !.thrown = {"noBackup"},
                                         !.after = liveDir[g]]
  /\ UNCHANGED <<liveDir, restoreFrame>>

\* lines 19-21: what the call does once isProcessRunning has answered
RestoreGate_Skip(running) == "go"
RestoreGate(running) == IF running THEN "stop" ELSE "go"

RestoreCheck(i) ==
  /\ rst[i].pc = "check"
  /\ LET g == rst[i].game
         seen == IF procRunning[g] THEN "running" ELSE "closed"
     IN IF RestoreGate(procRunning[g]) = "stop"
        THEN RestoreReturns(i, [rst[i] EXCEPT !.checked = seen,
                                               !.thrown = {"running"}],
                            liveDir[g])
        ELSE RestoreGoes(i, [rst[i] EXCEPT !.checked = seen,
                                            !.pc = "workspace"])
  /\ UNCHANGED <<liveDir, restoreFrame>>

\* lines 30-35: the step that follows the existsSync(savePath) test
AfterWorkspace_NoCopy(exists) == "download"
AfterWorkspace(exists) == IF exists THEN "safety" ELSE "download"

\* lines 23-30: mkdir of the scratch workspace, then existsSync(savePath)
RestoreWorkspace(i) ==
  /\ rst[i].pc = "workspace"
  /\ RestoreGoes(i, [rst[i] EXCEPT
        !.workspace = TRUE,
        !.created = TRUE,
        !.hadLive = liveDir[rst[i].game] # NoDir,
        !.pc = AfterWorkspace(liveDir[rst[i].game] # NoDir)])
  /\ UNCHANGED <<liveDir, restoreFrame>>

\* lines 31-32: the safety copy of the live directory
RestoreSafetyCopy(i) ==
  /\ rst[i].pc = "safety"
  /\ liveDir[rst[i].game] # NoDir
  /\ RestoreGoes(i, [rst[i] EXCEPT !.safety = liveDir[rst[i].game],
                                   !.pc = "download"])
  /\ UNCHANGED <<liveDir, restoreFrame>>

\* an await before the try block rejects: isProcessRunning, mkdir, cp
RestorePreambleFails(i) ==
  /\ rst[i].pc \in {"check", "workspace", "safety"}
  /\ RestoreReturns(i, [rst[i] EXCEPT
        !.thrown = {IF rst[i].pc = "check" THEN "oracle" ELSE "io"}],
        liveDir[rst[i].game])
  /\ UNCHANGED <<liveDir, restoreFrame>>

\* line 36: downloadFile
RestoreDownload(i) ==
  /\ rst[i].pc = "download"
  /\ rst[i].record \in DOMAIN archives
  /\ RestoreGoes(i, [rst[i] EXCEPT !.pc = "openLive",
                                   !.downloaded = TRUE])
  /\ UNCHANGED <<liveDir, restoreFrame>>

\* what follows the removal of the last entry: extraction, or the readdir of
\* the safety copy
AfterClear(r) ==
  IF r.pc \in {"openLive", "clear"}
  THEN [r EXCEPT !.pc = "extract", !.todo = archives[r.record]]
  ELSE [r EXCEPT !.pc = "rbRead", !.todo = {}]

\* emptyDirectory, lines 73-74: mkdir and readdir of the directory
OpenDir(i, nextPc) ==
  LET g == rst[i].game
      d == IF liveDir[g] = NoDir THEN {} ELSE liveDir[g]
      r == [rst[i] EXCEPT !.pc = nextPc, !.todo = NamesOf(d),
                          !.touched = rst[i].touched \/ liveDir[g] = NoDir]
      rs == IF liveDir[g] = NoDir THEN Disturb(rst, i) ELSE rst
  IN /\ liveDir' = [liveDir EXCEPT ![g] = d]
     /\ rst' = [rs EXCEPT ![i] = IF d = {} THEN AfterClear(r) ELSE r]
     /\ UNCHANGED lastRestore

\* lines 41-42: mkdir(savePath), emptyDirectory up to its readdir
RestoreOpenLive(i) ==
  /\ rst[i].pc = "openLive"
  /\ OpenDir(i, "clear")
  /\ UNCHANGED restoreFrame

\* emptyDirectory, lines 75-77: one rm of the loop
RemoveEntry(i, f) ==
  LET g == rst[i].game
      r == [rst[i] EXCEPT !.todo = rst[i].todo \ {f}, !.touched = TRUE]
      rs == Disturb(rst, i)
  IN /\ liveDir' = [liveDir EXCEPT ![g] = {x \in liveDir[g] : x[1] # f}]
     /\ rst' = [rs EXCEPT ![i] = IF r.todo = {} THEN AfterClear(r) ELSE r]
     /\ UNCHANGED lastRestore

RestoreRemove(i, f) ==
  /\ rst[i].pc = "clear"
  /\ f \in rst[i].todo
  /\ RemoveEntry(i, f)
  /\ WatcherSees(rst[i].game)
  /\ UNCHANGED restoreWriteFrame

\* lines 51-54: what a successful call returns
RestoreResult_NoPath(r) == [restoredAt |-> "now", tempBackupDir |-> "none"]
RestoreResult(r) ==
  [restoredAt |-> "now",
   tempBackupDir |-> IF r.workspace THEN "tempDir" ELSE "none"]

\* line 43: extract writes one entry of the archive; after the last one the
\* call emits its info event and returns (lines 45-54)
RestoreExtract(i, x) ==
  /\ rst[i].pc = "extract"
  /\ x \in rst[i].todo
  /\ LET g == rst[i].game
         d == ApplyWrite(liveDir[g], <<"write", x[1], x[2]>>)
         r == [rst[i] EXCEPT !.todo = rst[i].todo \ {x}, !.touched = TRUE]
         rs == Disturb(rst, i)
     IN /\ liveDir' = [liveDir EXCEPT ![g] = d]
        /\ IF r.todo = {}
           THEN /\ rst' = [rs EXCEPT ![i] = ReturnedRestore]
                /\ lastRestore' = [r EXCEPT !.pc = "done", !.after = d,
                                            !.ev = <<"info">>,
                                            !.result = RestoreResult(r)]
           ELSE /\ rst' = [rs EXCEPT ![i] = r]
                /\ UNCHANGED lastRestore
  /\ WatcherSees(rst[i].game)
  /\ UNCHANGED restoreWriteFrame

\* the catch block, line 56: roll back if the safety copy exists
CatchPlan_Rethrow(safetyExists) == "rethrow"
CatchPlan_Always(safetyExists) == "rollback"
CatchPlan(safetyExists) == IF safetyExists THEN "rollback" ELSE "rethrow"

\* an await of the try block rejects: downloadFile, mkdir, readdir, rm,
\* extract
RestoreStepFails(i) ==
  /\ rst[i].pc \in {"download", "openLive", "clear", "extract"}
  /\ LET r == [rst[i] EXCEPT !.primary = rst[i].pc]
     IN IF CatchPlan(r.safety # NoDir) = "rollback"
        THEN RestoreGoes(i, [r EXCEPT !.pc = "rbOpen", !.todo = {}])
        ELSE RestoreReturns(i, [r EXCEPT !.thrown = {r.primary}],
                            liveDir[r.game])
  /\ UNCHANGED <<liveDir, restoreFrame>>

\* line 57: emptyDirectory(savePath) of the rollback, up to its readdir
RollbackOpen(i) ==
  /\ rst[i].pc = "rbOpen"
  /\ OpenDir(i, "rbClear")
  /\ UNCHANGED restoreFrame

RollbackRemove(i, f) ==
  /\ rst[i].pc = "rbClear"
  /\ f \in rst[i].todo
  /\ RemoveEntry(i, f)
  /\ WatcherSees(rst[i].game)
  /\ UNCHANGED restoreWriteFrame

\* the error that leaves the catch block when a rollback step rejects
RollbackThrows(primary) == {"rollback"}

\* the rollback is over: line 67 rethrows the error of the try block
RollbackDone(i, d) ==
  RestoreReturns(i, [rst[i] EXCEPT !.rollback = "done",
                                   !.thrown = {rst[i].primary}], d)

\* line 58: readdir of the safety copy
RollbackRead(i) ==
  /\ rst[i].pc = "rbRead"
  /\ IF rst[i].safety = {}
     THEN RollbackDone(i, liveDir[rst[i].game])
     ELSE RestoreGoes(i, [rst[i] EXCEPT !.pc = "rbCopy",
                                        !.todo = rst[i].safety])
  /\ UNCHANGED <<liveDir, restoreFrame>>

\* lines 59-65: one cp of the copy back
RollbackCopy(i, x) ==
  /\ rst[i].pc = "rbCopy"
  /\ x \in rst[i].todo
  /\ LET g == rst[i].game
         d == ApplyWrite(liveDir[g], <<"write", x[1], x[2]>>)
         rs == Disturb(rst, i)
     IN /\ liveDir' = [liveDir EXCEPT ![g] = d]
        /\ IF rst[i].todo = {x}
           THEN /\ rst' = [rs EXCEPT ![i] = ReturnedRestore]
                /\ lastRestore' = [rst[i] EXCEPT
                     !.pc = "done", !.todo = {}, !.after = d,
                     !.rollback = "done", !.thrown = {rst[i].primary}]
           ELSE /\ rst' = [rs EXCEPT ![i].todo = rst[i].todo \ {x}]
                /\ UNCHANGED lastRestore
  /\ WatcherSees(rst[i].game)
  /\ UNCHANGED restoreWriteFrame

\* an await of the rollback rejects: mkdir, readdir, rm or cp
RollbackFails(i) ==
  /\ rst[i].pc \in {"rbOpen", "rbClear", "rbRead", "rbCopy"}
  /\ RestoreReturns(i, [rst[i] EXCEPT
        !.rollback = "failed",
        !.thrown = RollbackThrows(rst[i].primary)],
        liveDir[rst[i].game])
  /\ UNCHANGED <<liveDir, restoreFrame>>

\* ------------------------------------------------------------------ catalog
NoMerge == [merged |-> FALSE, had |-> {}, local |-> NoSaves,
            after |-> [ids |-> {}, scanRoots |-> {},
                       latestRemoteSave |-> NoSaves],
            cat |-> NoCatalog]

\* line 290: the latestLocalSave of each game of the state, null otherwise
localSnapshotsByGame(g) == IF g \in stateGames THEN latestLocalSave[g] ELSE 0

\* line 298: the latestLocalSave of a merged game
MergedLocalSave_FromCatalog(localValue, catValue) == catValue
MergedLocalSave(localValue, catValue) == localValue

\* mergeCloudCatalog(cat): state.games becomes the games of the catalog, each
\* with the latestLocalSave the state had for its id
MergedIds_KeepLocal(cat) ==
  IF cat.hasGames THEN cat.ids \cup stateGames ELSE stateGames
MergedIds(cat) == IF cat.hasGames THEN cat.ids ELSE stateGames
MergedLocal(cat) ==
  IF cat.hasGames
  THEN [g \in Games |->
          IF g \in cat.ids
          THEN MergedLocalSave(localSnapshotsByGame(g), cat.latestLocalSave[g])
          ELSE 0]
  ELSE latestLocalSave
MergedRemote(cat) ==
  IF cat.hasGames
  THEN [g \in Games |-> IF g \in cat.ids THEN cat.latestRemoteSave[g] ELSE 0]
  ELSE latestRemoteSave

\* normalizeGameRecord, lines 468-469: a merged game is not running
MergedSession(cat) == IF cat.hasGames THEN NoSessions ELSE session

\* lines 296-299: the other fields of a merged game are those of the
\* catalog entry (normalizeGameRecord keeps them, totalPlaySeconds as a
\* number)
MergedConfig(cat) ==
  IF cat.hasGames
  THEN [g \in Games |-> IF g \in cat.ids THEN cat.config[g]
                                          ELSE InitialConfig]
  ELSE conf.state
MergedPlaySeconds(cat) ==
  IF cat.hasGames
  THEN [g \in Games |-> IF g \in cat.ids THEN cat.totalPlaySeconds[g] ELSE 0]
  ELSE totalPlaySeconds
MergedSessionsCounted(cat) ==
  IF cat.hasGames
  THEN [g \in Games |-> IF g \in cat.ids THEN cat.sessionsCounted[g] ELSE 0]
  ELSE sessionsCounted

\* line 294: the scan roots of the catalog when it has the list
MergedRoots(cat) == IF cat.hasRoots THEN cat.scanRoots ELSE scanRoots

mergeCloudCatalog(cat) ==
  /\ stateGames' = MergedIds(cat)
  /\ latestLocalSave' = MergedLocal(cat)
  /\ session' = MergedSession(cat)
  /\ scanRoots' = MergedRoots(cat)
  /\ conf' = [conf EXCEPT !.state = MergedConfig(cat)]
  /\ totalPlaySeconds' = MergedPlaySeconds(cat)
  /\ sessionsCounted' = MergedSessionsCounted(cat)
  /\ poll' = ArrayReplaced(poll)
  /\ lastMerge' = [merged |-> TRUE, had |-> stateGames,
                   after |-> [ids |-> MergedIds(cat),
                              scanRoots |-> MergedRoots(cat),
                              latestRemoteSave |-> MergedRemote(cat)],
                   local |-> latestLocalSave, cat |-> cat]

\* refreshRemoteMetadata: the stored latest record of each game, if any
RefreshedRemote(ids, remote) ==
  [g \in Games |-> IF g \in ids /\ store["drive"][g].latest # 0
                   THEN store["drive"][g].latest ELSE remote[g]]

catalogFrame == <<schedVars, attVars, restoreVars, procRunning, liveDir,
                  archives, limits, store, sweep, fp, upsertVars, sysVars,
                  clock>>

\* drive:connect: load the remote catalog and merge it, or create it from
\* the state; then refreshRemoteMetadata and persistState
DriveConnect ==
  /\ ~driveAuth
  /\ driveAuth' = TRUE
  /\ LET cat == remoteCatalog["drive"]
     IN IF cat.exists /\ cat.hasGames /\ cat.ids # {}
        THEN /\ mergeCloudCatalog(cat)
             /\ latestRemoteSave' = RefreshedRemote(cat.ids, MergedRemote(cat))
             /\ remoteCatalog' =
                  IF offlineDir
                  THEN [remoteCatalog EXCEPT ![
                         "mirror"] = [serializeCatalog EXCEPT
                            !.ids = cat.ids,
                            !.scanRoots = MergedRoots(cat),
                            !.config = MergedConfig(cat),
                            !.totalPlaySeconds = MergedPlaySeconds(cat),
                            !.sessionsCounted = MergedSessionsCounted(cat),
                            !.latestRemoteSave =
                               [g \in Games |-> IF g \in cat.ids
                                                THEN latestRemoteSave'[g]
                                                ELSE 0]]]
                  ELSE remoteCatalog
        ELSE /\ latestRemoteSave' = RefreshedRemote(stateGames,
                                                    latestRemoteSave)
             /\ remoteCatalog' =
                  [b \in Backends |->
                     IF b = "drive" THEN serializeCatalog
                     ELSE IF offlineDir
                     THEN [serializeCatalog EXCEPT !.latestRemoteSave =
                             [g \in Games |-> IF g \in stateGames
                                              THEN latestRemoteSave'[g]
                                              ELSE 0]]
                     ELSE remoteCatalog[b]]
             /\ UNCHANGED <<stateGames, latestLocalSave, lastMerge,
                            scanRoots, session, conf, totalPlaySeconds,
                            sessionsCounted, poll>>
  /\ savedState' = StateDoc'
  /\ UNCHANGED <<offlineDir, catalogFrame>>

\* settings:set-offline-backup-dir: load the catalog of the folder and merge
\* it when it has games or scan roots; then persistState writes the catalogs
SetOfflineBackupDir ==
  /\ ~offlineDir
  /\ offlineDir' = TRUE
  /\ LET cat == remoteCatalog["mirror"]
         written == [serializeCatalog EXCEPT
                       !.ids = stateGames',
                       !.scanRoots = scanRoots',
                       !.config = conf'.state,
                       !.totalPlaySeconds = totalPlaySeconds',
                       !.sessionsCounted = sessionsCounted',
                       !.latestRemoteSave =
                          [g \in Games |-> IF g \in stateGames'
                                           THEN latestRemoteSave'[g] ELSE 0]]
     IN /\ IF cat.exists /\ ((cat.hasGames /\ cat.ids # {}) \/ cat.hasRoots)
           THEN /\ mergeCloudCatalog(cat)
                /\ latestRemoteSave' = MergedRemote(cat)
           ELSE UNCHANGED <<stateGames, latestLocalSave, latestRemoteSave,
                            lastMerge, scanRoots, session, conf,
                            totalPlaySeconds, sessionsCounted, poll>>
        /\ remoteCatalog' = [b \in Backends |->
             IF b = "mirror" \/ driveAuth THEN written ELSE remoteCatalog[b]]
  /\ savedState' = StateDoc'
  /\ UNCHANGED <<driveAuth, catalogFrame>>

\* the watch roots of this device and those of another device
LocalRoots == {"r1"}
ForeignRoots == {"r2"}

\* the catalogs another device or an earlier installation may have written
ForeignCatalogs ==
  {[exists |-> TRUE, hasRoots |-> r, hasGames |-> h,
    ids |-> IF h THEN ids ELSE {},
    latestLocalSave |-> [g \in Games |-> IF h /\ g \in ids THEN l ELSE 0],
    latestRemoteSave |-> [g \in Games |-> IF h /\ g \in ids THEN m ELSE 0],
    session |-> NoSessions, scanRoots |-> IF r THEN ForeignRoots ELSE {},
    config |-> NoConf.state, totalPlaySeconds |-> NoPlay,
    sessionsCounted |-> NoPlay] :
     r \in BOOLEAN, h \in BOOLEAN, ids \in SUBSET Games,
     l \in {0, SnapId(0)}, m \in {0, SnapId(0)}}

\* another device writes the catalog of a backend this device is not
\* connected to yet
OtherDeviceWrites(b, cat) ==
  /\ IF b = "drive" THEN ~driveAuth ELSE ~offlineDir
  /\ remoteCatalog[b] = NoCatalog
  /\ remoteCatalog' = [remoteCatalog EXCEPT ![b] = cat]
  /\ UNCHANGED <<stateGames, lastMerge, scanRoots, stateVars, driveAuth,
                 offlineDir, session, savedState, conf, totalPlaySeconds,
                 sessionsCounted, poll, catalogFrame>>

\* ---------------------------------------------------------- retention sweep
\* TEMP_BACKUP_RETENTION_DAYS, default 7
RetentionDays == 7
\* times are in seconds, the code's milliseconds divided by 1000: every
\* time of the model is a whole number of days
DaySec == 24 * 60 * 60
\* Date.now() when the sweep starts, and the cutoff of line 54
NowSec == 30 * DaySec
CutoffSec == NowSec - RetentionDays * DaySec

\* line 62: the entry is older than the cutoff
Expired_Inclusive(mtime) == mtime <= CutoffSec
Expired(mtime) == mtime < CutoffSec

\* no sweep is running; the root is empty
NoSweep == [pc |-> "idle", entries |-> <<>>, present |-> {}, todo |-> {},
            cur |-> 0, evaluated |-> {}, err |-> "none", failed |-> 0]

sweepFrame == <<schedVars, attVars, restoreVars, stateVars, envVars,
                catalogVars, fp, pollVars, upsertVars, sysVars, conf, playVars>>

\* cleanupTempBackups, lines 53-57: mkdir and readdir of the root
SweepStart ==
  /\ sweep.pc = "idle"
  /\ sweep' = [sweep EXCEPT
                 !.todo = sweep.present,
                 !.pc = IF sweep.present = {} THEN "done" ELSE "stat"]
  /\ UNCHANGED sweepFrame

\* the loop goes on with the next entry or the sweep returns
SweepNext(sw, e) ==
  [sw EXCEPT !.todo = sw.todo \ {e}, !.cur = 0,
             !.pc = IF sw.todo \ {e} = {} THEN "done" ELSE "stat"]

\* lines 60-62: stat of the next entry and the comparison with the cutoff
SweepStat(e) ==
  /\ sweep.pc = "stat"
  /\ e \in sweep.todo
  /\ LET sw == [sweep EXCEPT !.evaluated = sweep.evaluated \cup {e}]
     IN sweep' = IF Expired(sweep.entries[e])
                 THEN [sw EXCEPT !.pc = "rm", !.cur = e]
                 ELSE SweepNext(sw, e)
  /\ UNCHANGED sweepFrame

\* line 63: rm of the expired entry
SweepRemove ==
  /\ sweep.pc = "rm"
  /\ sweep' = SweepNext([sweep EXCEPT !.present = sweep.present \ {sweep.cur}],
                        sweep.cur)
  /\ UNCHANGED sweepFrame

\* stat or rm of entry e rejects: cleanupTempBackups has no try, so the
\* rejection ends the loop and leaves the function
SweepEntryFails(e) ==
  /\ \/ sweep.pc = "stat" /\ e \in sweep.todo
     \/ sweep.pc = "rm" /\ e = sweep.cur
  /\ sweep' = [sweep EXCEPT !.pc = "done", !.err = sweep.pc, !.failed = e]
  /\ UNCHANGED sweepFrame

\* mkdir or readdir of the root rejects
SweepListFails ==
  /\ sweep.pc = "idle"
  /\ sweep' = [sweep EXCEPT !.pc = "done", !.err = "list"]
  /\ UNCHANGED sweepFrame

\* -------------------------------------------------------------- fingerprint
\* relative paths of one directory.  "U+00E9" and "e U+0301" are the
\* precomposed and the decomposed spelling of the same letter: two different
\* file names that are canonically equivalent
RelativePaths == {"a", "U+00E9", "e U+0301", "z"}

\* the position of a path in the collation order of localeCompare, which
\* treats canonically equivalent strings as equal
CollationRank(p) ==
  CASE p = "a" -> 1
    [] p = "U+00E9" -> 2
    [] p = "e U+0301" -> 2
    [] p = "z" -> 3

\* left.relativePath.localeCompare(right.relativePath)
localeCompare(l, r) ==
  IF CollationRank(l) < CollationRank(r) THEN -1
  ELSE IF CollationRank(l) > CollationRank(r) THEN 1 ELSE 0

\* Array.prototype.sort with that comparator: a stable sort, so entries that
\* compare equal keep the order they were pushed in
RECURSIVE Insert(_, _)
Insert(sorted, x) ==
  IF sorted = <<>> THEN <<x>>
  ELSE IF localeCompare(sorted[Len(sorted)].relativePath, x.relativePath) <= 0
  THEN Append(sorted, x)
  ELSE Append(Insert(SubSeq(sorted, 1, Len(sorted) - 1), x),
              sorted[Len(sorted)])

RECURSIVE SortFiles(_)
SortFiles(files) ==
  IF files = <<>> THEN <<>>
  ELSE Insert(SortFiles(SubSeq(files, 1, Len(files) - 1)), files[Len(files)])

\* collectFiles: the files in the order readdir lists them, then sorted
collectFiles(listed) == SortFiles(listed)

\* hashFiles: the hash is updated with path, modification time and bytes of
\* each file in turn; the digest stands for the sequence of these updates
RECURSIVE hashFiles(_)
hashFiles(files) ==
  IF files = <<>> THEN <<>>
  ELSE <<files[1].relativePath, files[1].modifiedAt, files[1].bytes>>
         \o hashFiles(SubSeq(files, 2, Len(files)))

\* the orders in which readdir may list a set of files
Listings(files) ==
  {l \in [1..Cardinality(files) -> files] :
     \A i, j \in 1..Cardinality(files) : l[i] = l[j] => i = j}

NoFingerprint == [files |-> {}, seen |-> {}, listed |-> <<>>]

\* captureIfStable, lines 112 and 118, over one listing of the directory
Fingerprint(listed) ==
  /\ listed \in Listings(fp.files)
  /\ fp' = [fp EXCEPT !.listed = listed,
                      !.seen = fp.seen \cup {hashFiles(collectFiles(listed))}]
  /\ UNCHANGED <<schedVars, attVars, restoreVars, stateVars, envVars,
                 catalogVars, sweep, pollVars, upsertVars, sysVars, conf, playVars>>

\* ----------------------------------------------------------- specifications
InitialDir == {<<"f1", "v1">>}

\* ----------------------------------------------------------- file selection
\* patterns, paths and regular expression sources are sequences of characters
RegexSpecials == {".", "+", "^", "$", "{", "}", "(", ")", "|", "[", "]", "\\"}

\* String.prototype.replace(/[.+^${}()|[\]\\]/g, "\\$&")
RECURSIVE EscapeSpecials(_)
EscapeSpecials(text) ==
  IF text = <<>> THEN <<>>
  ELSE (IF Head(text) \in RegexSpecials THEN <<"\\", Head(text)>>
        ELSE <<Head(text)>>) \o EscapeSpecials(Tail(text))

\* replace(/\*\*/g, ".*"): pairs of stars from left to right
RECURSIVE ReplaceDoubleStar(_)
ReplaceDoubleStar(text) ==
  IF text = <<>> THEN <<>>
  ELSE IF Len(text) >= 2 /\ text[1] = "*" /\ text[2] = "*"
  THEN <<".", "*">> \o ReplaceDoubleStar(SubSeq(text, 3, Len(text)))
  ELSE <<Head(text)>> \o ReplaceDoubleStar(Tail(text))

\* replace(/\*/g, "[^\\\\/]*"): every star of the text the previous step left
SegmentClass == <<"[", "^", "\\", "\\", "/", "]">>
RECURSIVE ReplaceStar(_)
ReplaceStar(text) ==
  IF text = <<>> THEN <<>>
  ELSE (IF Head(text) = "*" THEN SegmentClass \o <<"*">>
        ELSE <<Head(text)>>) \o ReplaceStar(Tail(text))

\* replace(/\?/g, ".")
RECURSIVE ReplaceQuestion(_)
ReplaceQuestion(text) ==
  IF text = <<>> THEN <<>>
  ELSE <<IF Head(text) = "?" THEN "." ELSE Head(text)>>
         \o ReplaceQuestion(Tail(text))

\* lines 113-117: the source of the regular expression of a pattern
RegexSource(pattern) ==
  ReplaceQuestion(ReplaceStar(ReplaceDoubleStar(EscapeSpecials(pattern))))

\* new RegExp(source): the tokens of the expression; "\\" c is the literal c,
\* "." any character, "[^\\\\/]*" a run without separators, ".*" any run
IsPrefix(pre, text) == Len(pre) <= Len(text) /\ SubSeq(text, 1, Len(pre)) = pre
RECURSIVE Compile(_)
Compile(src) ==
  IF src = <<>> THEN <<>>
  ELSE IF src[1] = "\\" /\ Len(src) >= 2
  THEN <<[kind |-> "lit", char |-> src[2]]>>
         \o Compile(SubSeq(src, 3, Len(src)))
  ELSE IF IsPrefix(SegmentClass \o <<"*">>, src)
  THEN <<[kind |-> "segment", char |-> ""]>>
         \o Compile(SubSeq(src, Len(SegmentClass) + 2, Len(src)))
  ELSE IF IsPrefix(<<".", "*">>, src)
  THEN <<[kind |-> "run", char |-> ""]>> \o Compile(SubSeq(src, 3, Len(src)))
  ELSE IF src[1] = "."
  THEN <<[kind |-> "any", char |-> ""]>> \o Compile(Tail(src))
  ELSE <<[kind |-> "lit", char |-> src[1]]>> \o Compile(Tail(src))

\* the "i" flag: letters compare without case
LowerCase(c) == CASE c = "A" -> "a" [] c = "B" -> "b" [] OTHER -> c
Separators == {"/", "\\"}

\* RegExp.prototype.test of ^tokens$ on a path
RECURSIVE Test(_, _)
Test(tokens, path) ==
  IF tokens = <<>> THEN path = <<>>
  ELSE CASE tokens[1].kind = "segment" ->
              \/ Test(Tail(tokens), path)
              \/ /\ path # <<>>
                 /\ Head(path) \notin Separators
                 /\ Test(tokens, Tail(path))
         [] tokens[1].kind = "run" ->
              \/ Test(Tail(tokens), path)
              \/ path # <<>> /\ Test(tokens, Tail(path))
         [] tokens[1].kind = "any" ->
              path # <<>> /\ Test(Tail(tokens), Tail(path))
         [] tokens[1].kind = "lit" ->
              /\ path # <<>>
              /\ LowerCase(Head(path)) = LowerCase(tokens[1].char)
              /\ Test(Tail(tokens), Tail(path))

\* matchesPattern(relativePath, pattern)
MatchEverything == <<"*", "*", "/", "*">>
matchesPattern(relativePath, pattern) ==
  \/ pattern = <<>>
  \/ pattern = MatchEverything
  \/ Test(Compile(RegexSource(pattern)), relativePath)

\* collectFiles, line 77: whether a file of the tree is selected
Selected(relativePath, patterns) ==
  \/ Len(patterns) = 0
  \/ \E i \in DOMAIN patterns : matchesPattern(relativePath, patterns[i])

NoGlob == [patterns |-> <<>>, path |-> <<>>, pc |-> "idle",
           selected |-> FALSE]

\* collectFiles reaches the file and tests it
SelectFile ==
  /\ gl.pc = "ready"
  /\ gl' = [gl EXCEPT !.pc = "done",
                      !.selected = Selected(gl.path, gl.patterns)]
  /\ UNCHANGED <<schedVars, attVars, restoreVars, stateVars, envVars,
                 catalogVars, sweep, fp, pollVars, upsertVars, ps, conf,
                 playVars>>

\* ------------------------------------------------------------ process query
\* a process name: the characters of its base name and its extension; the
\* empty sequence stands for a missing name
NoName == <<>>
ProcessNames ==
  {NoName, [base |-> <<"g">>, ext |-> ".exe"], [base |-> <<"g">>, ext |-> ""],
   [base |-> <<" ">>, ext |-> ".exe"], [base |-> <<" ", "g", " ">>, ext |-> ""],
   [base |-> <<"h">>, ext |-> ".exe"]}

\* String.prototype.trim on the characters of a name
RECURSIVE TrimStart(_)
TrimStart(cs) ==
  IF cs # <<>> /\ Head(cs) = " " THEN TrimStart(Tail(cs)) ELSE cs
RECURSIVE TrimEnd(_)
TrimEnd(cs) ==
  IF cs # <<>> /\ cs[Len(cs)] = " "
  THEN TrimEnd(SubSeq(cs, 1, Len(cs) - 1)) ELSE cs
Trim(cs) == TrimEnd(TrimStart(cs))

\* normalizeProcessLookupName: "" for a missing name, else the base name
\* without its extension, trimmed
normalizeProcessLookupName(processName) ==
  IF processName = NoName THEN <<>> ELSE Trim(processName.base)

\* the game whose process has the image name
ImageOwner(lookupName) == IF lookupName = <<"g">> THEN "g1" ELSE "g2"
ImageRunning(processName) ==
  procRunning[ImageOwner(normalizeProcessLookupName(processName))]
NoState == [running |-> FALSE, startedAt |-> 0]
NoCall == [pc |-> "idle", name |-> NoName, queries |-> 0,
           enrichedFailed |-> FALSE, fallbackFailed |-> FALSE,
           saw |-> FALSE, result |-> NoState]

InitNoCalls == ps = NoCall /\ gl = NoGlob

\* getProcessState(processName), lines 18-24: an empty lookup name returns
\* without a query
GetProcessState(processName) ==
  /\ ps.pc \in {"idle", "returned", "rejected"}
  /\ ps' = [NoCall EXCEPT
              !.name = processName,
              !.pc = IF normalizeProcessLookupName(processName) = <<>>
                     THEN "returned" ELSE "enriched"]
  /\ UNCHANGED <<schedVars, attVars, restoreVars, stateVars, envVars,
                 catalogVars, sweep, fp, pollVars, upsertVars, gl, conf,
                 playVars>>

\* lines 26-42: the Get-Process script prints the state of the process
PsEnriched ==
  /\ ps.pc = "enriched"
  /\ ps' = [ps EXCEPT
              !.pc = "returned", !.queries = ps.queries + 1,
              !.saw = ImageRunning(ps.name),
              !.result = [running |-> ImageRunning(ps.name),
                          startedAt |-> IF ImageRunning(ps.name)
                                        THEN 1 ELSE 0]]
  /\ UNCHANGED <<schedVars, attVars, restoreVars, stateVars, envVars,
                 catalogVars, sweep, fp, pollVars, upsertVars, gl, conf,
                 playVars>>

\* line 43: what the catch of the enriched query does
OnEnrichedError_Throw == "throw"
OnEnrichedError == "fallback"

\* the script fails or its output is no JSON
PsEnrichedFails ==
  /\ ps.pc = "enriched"
  /\ ps' = [ps EXCEPT
              !.pc = IF OnEnrichedError = "fallback" THEN "fallback"
                     ELSE "rejected",
              !.queries = ps.queries + 1, !.enrichedFailed = TRUE]
  /\ UNCHANGED <<schedVars, attVars, restoreVars, stateVars, envVars,
                 catalogVars, sweep, fp, pollVars, upsertVars, gl, conf,
                 playVars>>

\* lines 44-47 and isProcessRunning: the tasklist query answers
PsFallback ==
  /\ ps.pc = "fallback"
  /\ ps' = [ps EXCEPT
              !.pc = "returned", !.queries = ps.queries + 1,
              !.saw = ImageRunning(ps.name),
              !.result = [running |-> ImageRunning(ps.name),
                          startedAt |-> 0]]
  /\ UNCHANGED <<schedVars, attVars, restoreVars, stateVars, envVars,
                 catalogVars, sweep, fp, pollVars, upsertVars, gl, conf,
                 playVars>>

\* the tasklist query rejects inside the catch: getProcessState rejects
PsFallbackFails ==
  /\ ps.pc = "fallback"
  /\ ps' = [ps EXCEPT !.pc = "rejected", !.queries = ps.queries + 1,
                      !.fallbackFailed = TRUE]
  /\ UNCHANGED <<schedVars, attVars, restoreVars, stateVars, envVars,
                 catalogVars, sweep, fp, pollVars, upsertVars, gl, conf,
                 playVars>>

\* ----------------------------------------------------------- catalog upsert
\* a file of the library folder; JSON.stringify(payload) is its content
CatalogName == "games.json"
Payloads == {"p1", "p2"}
Stringify(payload) == <<"json", payload>>
File(id, name, content) ==
  [id |-> id, name |-> name, trashed |-> FALSE, content |-> content]

NoSync == [pc |-> "idle", payload |-> "none", temp |-> <<>>, existing |-> 0,
           returned |-> 0, lastPayload |-> "none"]

InitNoUpsert == library = <<>> /\ sync = NoSync

upsertFrame == <<schedVars, attVars, restoreVars, stateVars, envVars,
                 catalogVars, sweep, fp, pollVars, sysVars, conf, playVars>>

\* syncCatalog(payload), lines 437-444, when no other call is in flight:
\* ensureAppFolders resolves the library folder
SyncCatalog(payload) ==
  /\ sync.pc = "idle"
  /\ sync.returned < MaxSyncs
  /\ sync' = [sync EXCEPT !.pc = "temp", !.payload = payload]
  /\ UNCHANGED <<library, upsertFrame>>

\* upsertJson, lines 422-423: the payload is written to a temporary file
SyncWriteTemp ==
  /\ sync.pc = "temp"
  /\ sync' = [sync EXCEPT !.pc = "find", !.temp = Stringify(sync.payload)]
  /\ UNCHANGED <<library, upsertFrame>>

\* findFileByName: the files of the folder with the name that are not
\* trashed; the first of the listing is returned, null when there is none
Matches(name) ==
  {i \in DOMAIN library : library[i].name = name /\ ~library[i].trashed}

SyncFind ==
  /\ sync.pc = "find"
  /\ \E id \in IF Matches(CatalogName) = {} THEN {0}
               ELSE {library[i].id : i \in Matches(CatalogName)} :
       sync' = [sync EXCEPT !.pc = "write", !.existing = id]
  /\ UNCHANGED <<library, upsertFrame>>

\* upsertFile, lines 405-418: update the file found, else create one
UpsertPlan_Create(existing) == "create"
UpsertPlan(existing) == IF existing # 0 THEN "update" ELSE "create"

\* files.update replaces the content of the file with the id; files.create
\* adds a file with a new id; then the temporary file is removed and the
\* call returns
SyncWrite ==
  /\ sync.pc = "write"
  /\ library' =
       IF UpsertPlan(sync.existing) = "update"
       THEN [i \in DOMAIN library |->
               IF library[i].id = sync.existing
               THEN [library[i] EXCEPT !.content = sync.temp]
               ELSE library[i]]
       ELSE Append(library, File(Len(library) + 1, CatalogName, sync.temp))
  /\ sync' = [NoSync EXCEPT !.returned = sync.returned + 1,
                            !.lastPayload = sync.payload]
  /\ UNCHANGED upsertFrame

\* the list or the write request rejects: the temporary file is removed and
\* the call rejects
SyncFails ==
  /\ sync.pc \in {"find", "write"}
  /\ sync' = [NoSync EXCEPT !.returned = sync.returned,
                            !.lastPayload = sync.lastPayload]
  /\ UNCHANGED <<library, upsertFrame>>

\* no session has been counted
InitNoPlay ==
  /\ clock = 1
  /\ totalPlaySeconds = NoPlay
  /\ sessionsCounted = NoPlay

InitCommon ==
  /\ conf = NoConf
  /\ InitNoPlay
  /\ procRunning = [g \in Games |-> FALSE]
  /\ monitoring = FALSE
  /\ watchers = {}
  /\ timers = {}
  /\ pendingTimers = [g \in Games |-> 0]
  /\ sinceMutation = [g \in Games |-> SettleTicks]
  /\ nEvents = 0
  /\ servedEvents = {}
  /\ dropped = {}
  /\ sysEvents = {}
  /\ att = <<>>
  /\ last = NoAttempt
  /\ failedEarly = {}
  /\ snapGate = <<>>
  /\ rst = <<>>
  /\ lastRestore = NoRestore

\* every configured game is in the state and no catalog has been stored
InitNoCatalog ==
  /\ stateGames = Games
  /\ remoteCatalog = [b \in Backends |-> NoCatalog]
  /\ lastMerge = NoMerge
  /\ scanRoots = LocalRoots

InitNoSweep == sweep = NoSweep /\ fp = NoFingerprint

\* no game is running, no poll is in flight, the state has been saved
InitNoPoll ==
  /\ session = NoSessions
  /\ poll = NoPolls
  /\ savedState = StateDoc

\* The scheduler: watchers, debounce timers, the timer callback and
\* captureNow up to the process gate of captureIfStable, for two entities.
\* What captureIfStable does after the gate, and a rejected process query,
\* touch no timer and are left to the capture specification.
InitSched ==
  /\ InitCommon
  /\ InitNoCalls
  /\ InitNoUpsert
  /\ InitNoCatalog
  /\ InitNoSweep
  /\ liveDir = [g \in Games |-> InitialDir]
  /\ driveAuth = FALSE
  /\ offlineDir = FALSE
  /\ latestLocalSave = [g \in Games |-> 0]
  /\ latestRemoteSave = [g \in Games |-> 0]
  /\ store = EmptyStore
  /\ archives = <<>>
  /\ limits = [events |-> SchedEvents, attempts |-> SchedAttempts,
               restores |-> 0]
  /\ InitNoPoll

SchedOps == {<<"write", "f1", "v2">>}

NextSched ==
  \/ \E g \in Games : SetProcess(g)
  \/ Tick
  \/ StartMonitoring
  \/ \E g \in Games, op \in SchedOps : Mutation(g, op)
  \/ \E t \in timers : TimerFire(t)
  \/ \E g \in Games : CaptureNow(g)
  \/ \E a \in DOMAIN att : CheckProcess(a)

SpecSched == InitSched /\ [][NextSched]_vars

\* The capture pipeline of one entity, from the watcher event to the end of
\* handleSnapshotCaptured, with both backends and every failure the awaits
\* of the code can raise.
CapGames == {"g1"}
CapOps == {<<"write", "f1", "v2">>, <<"delete", "f1", "v1">>}

InitCapture ==
  /\ InitCommon
  /\ InitNoCalls
  /\ InitNoUpsert
  /\ InitNoCatalog
  /\ InitNoSweep
  /\ liveDir \in {[g \in Games |-> IF g \in CapGames THEN d ELSE InitialDir] :
                    d \in {NoDir, InitialDir}}
  /\ driveAuth \in BOOLEAN
  /\ offlineDir \in BOOLEAN
  /\ \/ /\ latestRemoteSave = [g \in Games |-> 0]
        /\ store = EmptyStore
        /\ archives = <<>>
     \/ /\ latestRemoteSave = [g \in Games |-> SnapId(0)]
        /\ store = EarlierStore
        /\ archives = (SnapId(0) :> InitialDir)
  /\ latestLocalSave = [g \in Games |-> 0]
  /\ limits = [events |-> CapEvents, attempts |-> CapAttempts,
               restores |-> 0]
  /\ InitNoPoll

NextCapture ==
  \/ \E g \in CapGames : SetProcess(g)
  \/ Tick
  \/ StartMonitoring
  \/ \E g \in CapGames, op \in CapOps : Mutation(g, op)
  \/ \E t \in timers : TimerFire(t)
  \/ \E g \in CapGames : CaptureNow(g)
  \/ \E a \in DOMAIN att : CheckProcess(a)
  \/ \E a \in DOMAIN att : CheckProcessFails(a)
  \/ \E a \in DOMAIN att : CollectFiles(a)
  \/ \E a \in DOMAIN att : Archive(a)
  \/ \E a \in DOMAIN att : UploadStep(a)
  \/ \E a \in DOMAIN att : UploadStepFails(a)
  \/ \E a \in DOMAIN att : UploadReturn(a)
  \/ \E a \in DOMAIN att : Persist(a)
  \/ \E a \in DOMAIN att : PersistFails(a)

SpecCapture == InitCapture /\ [][NextCapture]_vars

\* The scheduler of one entity with the service stopped and started again.
NextStop ==
  \/ \E g \in CapGames : SetProcess(g)
  \/ Tick
  \/ StartMonitoring
  \/ StopMonitoring
  \/ \E g \in CapGames, op \in SchedOps : Mutation(g, op)
  \/ \E t \in timers : TimerFire(t)
  \/ \E g \in CapGames : CaptureNow(g)
  \/ \E a \in DOMAIN att : CheckProcess(a)

SpecStop == InitSched /\ [][NextStop]_vars

\* The scheduler of one entity while its configuration is edited.
UpdatePayloads ==
  {[processName |-> p, savePath |-> d, filePatterns |-> f] :
     p \in {"", "p2"}, d \in {"", "d2"}, f \in {<<>>, <<"*.sav">>}}

NextConfig ==
  \/ \E g \in CapGames : SetProcess(g)
  \/ Tick
  \/ StartMonitoring
  \/ \E g \in CapGames, op \in SchedOps : Mutation(g, op)
  \/ \E t \in timers : TimerFire(t)
  \/ \E g \in CapGames : CaptureNow(g)
  \/ \E a \in DOMAIN att : CheckProcess(a)
  \/ \E g \in CapGames, payload \in UpdatePayloads : GameUpdate(g, payload)

SpecConfig == InitSched /\ [][NextConfig]_vars

\* The session poll next to a manual capture of one entity: the poll's
\* process queries and writes interleave with the awaits of the capture.
InitPoll ==
  /\ InitCommon
  /\ InitNoCalls
  /\ InitNoUpsert
  /\ InitNoCatalog
  /\ InitNoSweep
  /\ liveDir = [g \in Games |-> InitialDir]
  /\ driveAuth \in BOOLEAN
  /\ offlineDir = ~driveAuth
  /\ latestLocalSave = [g \in Games |-> 0]
  /\ latestRemoteSave = [g \in Games |-> 0]
  /\ store = EmptyStore
  /\ archives = <<>>
  /\ limits = [events |-> 0, attempts |-> CapAttempts, restores |-> 0]
  /\ InitNoPoll

NextPoll ==
  \/ \E g \in Games : SetProcess(g)
  \/ PollStart("interval")
  \/ PollQuery("interval")
  \/ PollSave("interval")
  \/ PollCatalog("interval")
  \/ PollFails("interval")
  \/ \E g \in CapGames : CaptureNow(g)
  \/ \E a \in DOMAIN att : CheckProcess(a)
  \/ \E a \in DOMAIN att : CollectFiles(a)
  \/ \E a \in DOMAIN att : Archive(a)
  \/ \E a \in DOMAIN att : UploadStep(a)
  \/ \E a \in DOMAIN att : UploadReturn(a)
  \/ \E a \in DOMAIN att : Persist(a)

SpecPoll == InitPoll /\ [][NextPoll]_vars

\* The restore of one entity: restoreLatestRemote with every failure its
\* awaits can raise, while the game process starts and exits.
RestGames == {"g1"}
RestoreDirs == {NoDir, {}, {<<"f1", "v1">>}, {<<"f1", "v1">>, <<"f2", "v1">>}}
RestoreArchives == {{<<"f1", "v2">>}, {<<"f1", "v2">>, <<"f2", "v2">>}}

InitRestore ==
  /\ InitCommon
  /\ InitNoCalls
  /\ InitNoUpsert
  /\ InitNoCatalog
  /\ InitNoSweep
  /\ liveDir \in {[g \in Games |-> IF g \in RestGames THEN d ELSE InitialDir] :
                    d \in RestoreDirs}
  /\ driveAuth = TRUE
  /\ offlineDir = FALSE
  /\ \/ /\ latestRemoteSave = [g \in Games |-> 0]
        /\ store = EmptyStore
        /\ archives = <<>>
     \/ /\ latestRemoteSave = [g \in Games |-> SnapId(0)]
        /\ store = EarlierStore
        /\ archives \in {(SnapId(0) :> d) : d \in RestoreArchives}
  /\ latestLocalSave = [g \in Games |-> 0]
  /\ limits = [events |-> 0, attempts |-> 0, restores |-> MaxRestores]
  /\ InitNoPoll

NextRestore ==
  \/ \E g \in RestGames : SetProcess(g)
  \/ \E g \in RestGames : RestoreLatestRemote(g)
  \/ \E i \in DOMAIN rst : RestoreCheck(i)
  \/ \E i \in DOMAIN rst : RestoreWorkspace(i)
  \/ \E i \in DOMAIN rst : RestoreSafetyCopy(i)
  \/ \E i \in DOMAIN rst : RestorePreambleFails(i)
  \/ \E i \in DOMAIN rst : RestoreDownload(i)
  \/ \E i \in DOMAIN rst : RestoreOpenLive(i)
  \/ \E i \in DOMAIN rst, f \in FileNames : RestoreRemove(i, f)
  \/ \E i \in DOMAIN rst, x \in FileNames \X Contents : RestoreExtract(i, x)
  \/ \E i \in DOMAIN rst : RestoreStepFails(i)
  \/ \E i \in DOMAIN rst : RollbackOpen(i)
  \/ \E i \in DOMAIN rst, f \in FileNames : RollbackRemove(i, f)
  \/ \E i \in DOMAIN rst : RollbackRead(i)
  \/ \E i \in DOMAIN rst, x \in FileNames \X Contents : RollbackCopy(i, x)
  \/ \E i \in DOMAIN rst : RollbackFails(i)

SpecRestore == InitRestore /\ [][NextRestore]_vars

\* The catalog: this device has some games with local saves, other devices
\* have written catalogs, and the device connects its backends.
InitCatalog ==
  /\ InitCommon
  /\ InitNoCalls
  /\ InitNoUpsert
  /\ InitNoSweep
  /\ stateGames \in SUBSET Games
  /\ latestLocalSave \in {[g \in Games |-> IF g \in has THEN SnapId(1) ELSE 0] :
                            has \in SUBSET stateGames}
  /\ latestRemoteSave = NoSaves
  /\ remoteCatalog = [b \in Backends |-> NoCatalog]
  /\ lastMerge = NoMerge
  /\ scanRoots = LocalRoots
  /\ liveDir = [g \in Games |-> InitialDir]
  /\ driveAuth = FALSE
  /\ offlineDir = FALSE
  /\ store \in {EmptyStore, EarlierStore}
  /\ archives = <<>>
  /\ limits = [events |-> 0, attempts |-> 0, restores |-> 0]
  /\ session \in {[g \in Games |-> IF g \in run THEN RunningSession
                                     ELSE ClearedSession] :
                    run \in SUBSET stateGames}
  /\ poll = NoPolls
  /\ savedState = StateDoc

NextCatalog ==
  \/ \E b \in Backends, cat \in ForeignCatalogs : OtherDeviceWrites(b, cat)
  \/ DriveConnect
  \/ SetOfflineBackupDir

SpecCatalog == InitCatalog /\ [][NextCatalog]_vars

\* The catalog upsert: syncCatalog calls one after the other on a library
\* folder that holds no catalog or the catalog of an earlier session, with
\* or without a file of another name and a trashed catalog next to it.
OtherFile == File(1, "other.json", Stringify("p0"))
TrashedCatalog == [File(2, CatalogName, Stringify("p0")) EXCEPT
                     !.trashed = TRUE]
EarlierCatalog == File(3, CatalogName, Stringify("p0"))
Libraries ==
  {<<>>, <<OtherFile>>, <<OtherFile, TrashedCatalog>>,
   <<OtherFile, TrashedCatalog, EarlierCatalog>>}

InitUpsert ==
  /\ InitCommon
  /\ InitNoCalls
  /\ InitNoCatalog
  /\ InitNoSweep
  /\ liveDir = [g \in Games |-> InitialDir]
  /\ driveAuth = TRUE
  /\ offlineDir = FALSE
  /\ latestLocalSave = NoSaves
  /\ latestRemoteSave = NoSaves
  /\ store = EmptyStore
  /\ archives = <<>>
  /\ limits = [events |-> 0, attempts |-> 0, restores |-> 0]
  /\ InitNoPoll
  /\ library \in Libraries
  /\ sync = NoSync

NextUpsert ==
  \/ \E payload \in Payloads : SyncCatalog(payload)
  \/ SyncWriteTemp
  \/ SyncFind
  \/ SyncWrite
  \/ SyncFails

SpecUpsert == InitUpsert /\ [][NextUpsert]_vars

\* nothing is in flight: the state a helper is called in
InitIdle ==
  /\ InitCommon
  /\ InitNoCatalog
  /\ InitNoSweep
  /\ liveDir = [g \in Games |-> InitialDir]
  /\ driveAuth = FALSE
  /\ offlineDir = FALSE
  /\ latestLocalSave = NoSaves
  /\ latestRemoteSave = NoSaves
  /\ store = EmptyStore
  /\ archives = <<>>
  /\ limits = [events |-> 0, attempts |-> 0, restores |-> 0]
  /\ InitNoPoll
  /\ InitNoUpsert

\* getProcessState called with every kind of name while processes start and
\* close
InitProcess ==
  /\ InitIdle
  /\ InitNoCalls

NextProcess ==
  \/ \E g \in Games : SetProcess(g)
  \/ \E name \in ProcessNames : GetProcessState(name)
  \/ PsEnriched
  \/ PsEnrichedFails
  \/ PsFallback
  \/ PsFallbackFails

SpecProcess == InitProcess /\ [][NextProcess]_vars

\* File selection: one file of a tree and a selector list, for the
\* relative paths and the selectors below.
GlobPaths ==
  {<<"a">>, <<"A">>, <<"b">>, <<"a", "b">>, <<"b", ".", "a">>,
   <<"b", "/", "a">>, <<"b", "/", "b", "/", "a">>, <<"b", "/", "b", ".", "a">>}
GlobPatterns ==
  {MatchEverything, <<"*", "*">>, <<"*">>, <<"?">>, <<"a">>,
   <<"*", ".", "a">>, <<"b", "?", "a">>, <<"b", "/", "*">>,
   <<"*", "*", "/", "a">>, <<"*", "*", "a">>, <<"b", "*", "*">>}
SelectorLists ==
  {<<>>} \cup {<<p>> : p \in GlobPatterns}
    \cup {<<<<"a">>, p>> : p \in {<<"b">>, <<"*", ".", "a">>}}

InitGlob ==
  /\ InitIdle
  /\ ps = NoCall
  /\ gl \in {[NoGlob EXCEPT !.pc = "ready", !.path = path,
                             !.patterns = patterns] :
               path \in GlobPaths, patterns \in SelectorLists}

NextGlob == SelectFile

SpecGlob == InitGlob /\ [][NextGlob]_vars

\* The retention sweep at application start over a restore-temp root whose
\* entries are 1, 7 (exactly the window) or 10 days old.
EntryAgesDays == {1, RetentionDays, 10}

InitSweep ==
  /\ InitCommon
  /\ InitNoCalls
  /\ InitNoUpsert
  /\ InitNoCatalog
  /\ \E n \in 0..MaxEntries :
       \E ages \in [1..n -> EntryAgesDays] :
         sweep = [NoSweep EXCEPT
                    !.entries = [e \in 1..n |-> NowSec - ages[e] * DaySec],
                    !.present = 1..n]
  /\ fp = NoFingerprint
  /\ liveDir = [g \in Games |-> InitialDir]
  /\ driveAuth = FALSE
  /\ offlineDir = FALSE
  /\ latestLocalSave = NoSaves
  /\ latestRemoteSave = NoSaves
  /\ store = EmptyStore
  /\ archives = <<>>
  /\ limits = [events |-> 0, attempts |-> 0, restores |-> 0]
  /\ InitNoPoll

NextSweep ==
  \/ SweepStart
  \/ SweepListFails
  \/ \E e \in 1..MaxEntries : SweepStat(e)
  \/ SweepRemove
  \/ \E e \in 1..MaxEntries : SweepEntryFails(e)

SpecSweep == InitSweep /\ [][NextSweep]_vars

\* Fingerprints of one fixed set of matched files, computed again and again
\* while readdir lists the directory in any order.
FileSets ==
  {{[relativePath |-> p, modifiedAt |-> "t0", bytes |-> bytes[p]] :
      p \in paths} :
     paths \in SUBSET RelativePaths \ {{}},
     bytes \in [RelativePaths -> Contents]}

InitFingerprint ==
  /\ InitCommon
  /\ InitNoCalls
  /\ InitNoUpsert
  /\ InitNoCatalog
  /\ sweep = NoSweep
  /\ fp \in {[NoFingerprint EXCEPT !.files = files] : files \in FileSets}
  /\ liveDir = [g \in Games |-> InitialDir]
  /\ driveAuth = FALSE
  /\ offlineDir = FALSE
  /\ latestLocalSave = NoSaves
  /\ latestRemoteSave = NoSaves
  /\ store = EmptyStore
  /\ archives = <<>>
  /\ limits = [events |-> 0, attempts |-> 0, restores |-> 0]
  /\ InitNoPoll

NextFingerprint ==
  \E listed \in Listings(fp.files) : Fingerprint(listed)

SpecFingerprint == InitFingerprint /\ [][NextFingerprint]_vars

\* Captures and restores of one entity together: an automatic or a manual
\* capture up to the archive, and restores up to the end of the extraction,
\* with the process closed and no step failing.  At the start the entity is
\* watched, one mutation has been observed and its timer is due.
OverlapGames == {"g1"}
OverlapDir == {<<"f1", "v1">>}
OverlapArchive == {<<"f1", "v2">>}
OverlapTimer == [id |-> 1, game |-> "g1", remaining |-> 0, fresh |-> {1}]

InitMonitored(ts, lim) ==
  /\ conf = NoConf
  /\ InitNoPlay
  /\ procRunning = [g \in Games |-> FALSE]
  /\ monitoring = TRUE
  /\ watchers = OverlapGames
  /\ timers = ts
  /\ pendingTimers = [g \in Games |->
                        IF \E t \in ts : t.game = g
                        THEN (CHOOSE t \in ts : t.game = g).id ELSE 0]
  /\ sinceMutation = [g \in Games |-> SettleTicks]
  /\ nEvents = Cardinality(UNION {t.fresh : t \in ts})
  /\ servedEvents = {}
  /\ dropped = {}
  /\ sysEvents = {}
  /\ att = <<>>
  /\ last = NoAttempt
  /\ failedEarly = {}
  /\ snapGate = <<>>
  /\ rst = <<>>
  /\ lastRestore = NoRestore
  /\ InitNoCatalog
  /\ InitNoSweep
  /\ liveDir = [g \in Games |-> OverlapDir]
  /\ driveAuth = TRUE
  /\ offlineDir = FALSE
  /\ latestLocalSave = NoSaves
  /\ latestRemoteSave = [g \in Games |-> SnapId(0)]
  /\ store = EarlierStore
  /\ archives = (SnapId(0) :> OverlapArchive)
  /\ limits = lim
  /\ InitNoPoll
  /\ InitNoUpsert
  /\ InitNoCalls

InitTimerDue(lim) == InitMonitored({OverlapTimer}, lim)

InitOverlap ==
  InitTimerDue([events |-> Cardinality(OverlapTimer.fresh),
                attempts |-> CapAttempts, restores |-> MaxRestores + 1])

NextOverlap ==
  \/ \E t \in timers : TimerFire(t)
  \/ \E g \in OverlapGames : CaptureNow(g)
  \/ \E a \in DOMAIN att : CheckProcess(a)
  \/ \E a \in DOMAIN att : CollectFiles(a)
  \/ \E a \in DOMAIN att : Archive(a)
  \/ \E g \in OverlapGames : RestoreLatestRemote(g)
  \/ \E i \in DOMAIN rst : RestoreCheck(i)
  \/ \E i \in DOMAIN rst : RestoreWorkspace(i)
  \/ \E i \in DOMAIN rst : RestoreSafetyCopy(i)
  \/ \E i \in DOMAIN rst : RestoreDownload(i)
  \/ \E i \in DOMAIN rst : RestoreOpenLive(i)
  \/ \E i \in DOMAIN rst, f \in FileNames : RestoreRemove(i, f)
  \/ \E i \in DOMAIN rst, x \in FileNames \X Contents : RestoreExtract(i, x)

SpecOverlap == InitOverlap /\ [][NextOverlap]_vars

\* An automatic and a manual capture of one entity with the remote backend:
\* a debounce timer is due and captureNow may be called at any moment.
InitRace ==
  InitTimerDue([events |-> Cardinality(OverlapTimer.fresh),
                attempts |-> CapAttempts + 1, restores |-> 0])

NextRace ==
  \/ \E t \in timers : TimerFire(t)
  \/ \E g \in OverlapGames : CaptureNow(g)
  \/ \E a \in DOMAIN att : CheckProcess(a)
  \/ \E a \in DOMAIN att : CollectFiles(a)
  \/ \E a \in DOMAIN att : Archive(a)
  \/ \E a \in DOMAIN att : UploadStep(a)
  \/ \E a \in DOMAIN att : UploadReturn(a)
  \/ \E a \in DOMAIN att : Persist(a)

SpecRace == InitRace /\ [][NextRace]_vars

\* A restore of a monitored entity: the service is started, the watcher of
\* the entity is open, no timer is pending, nothing else writes to the save
\* directory and no capture is requested by hand.
InitWatched ==
  InitMonitored({}, [events |-> 0, attempts |-> CapAttempts + 1,
                     restores |-> MaxRestores])

NextWatched ==
  \/ \E g \in OverlapGames : SetProcess(g)
  \/ Tick
  \/ \E t \in timers : TimerFire(t)
  \/ \E a \in DOMAIN att : CheckProcess(a)
  \/ \E a \in DOMAIN att : CollectFiles(a)
  \/ \E a \in DOMAIN att : Archive(a)
  \/ \E a \in DOMAIN att : UploadStep(a)
  \/ \E a \in DOMAIN att : UploadReturn(a)
  \/ \E a \in DOMAIN att : Persist(a)
  \/ \E g \in OverlapGames : RestoreLatestRemote(g)
  \/ \E i \in DOMAIN rst : RestoreCheck(i)
  \/ \E i \in DOMAIN rst : RestoreWorkspace(i)
  \/ \E i \in DOMAIN rst : RestoreSafetyCopy(i)
  \/ \E i \in DOMAIN rst : RestoreDownload(i)
  \/ \E i \in DOMAIN rst : RestoreOpenLive(i)
  \/ \E i \in DOMAIN rst, f \in FileNames : RestoreRemove(i, f)
  \/ \E i \in DOMAIN rst, x \in FileNames \X Contents : RestoreExtract(i, x)

SpecWatched == InitWatched /\ [][NextWatched]_vars

\* The session poll called by the interval timer and by the timer of
\* game:launch while the games start and exit and the clock runs.
PlayGames == {"g1"}

InitPolls ==
  /\ InitCommon
  /\ InitNoCalls
  /\ InitNoUpsert
  /\ InitNoSweep
  /\ stateGames = PlayGames
  /\ remoteCatalog = [b \in Backends |-> NoCatalog]
  /\ lastMerge = NoMerge
  /\ scanRoots = LocalRoots
  /\ liveDir = [g \in Games |-> InitialDir]
  /\ driveAuth = FALSE
  /\ offlineDir = FALSE
  /\ latestLocalSave = NoSaves
  /\ latestRemoteSave = NoSaves
  /\ store = EmptyStore
  /\ archives = <<>>
  /\ limits = [events |-> 0, attempts |-> 0, restores |-> 0]
  /\ InitNoPoll

NextPolls ==
  \/ \E g \in PlayGames : SetProcess(g)
  \/ ClockTick
  \/ ClockSetBack
  \/ \E c \in PollCallers : PollStart(c)
  \/ \E c \in PollCallers : PollQuery(c)
  \/ \E c \in PollCallers : PollSave(c)

SpecPolls == InitPolls /\ [][NextPolls]_vars

\* The same with game:update editing an entry (a payload that changes the
\* title only).
TitleOnly == [processName |-> "", savePath |-> "", filePatterns |-> <<>>]

NextPlay ==
  \/ NextPolls
  \/ \E g \in PlayGames : GameUpdate(g, TitleOnly)

SpecPlay == InitPolls /\ [][NextPlay]_vars

\* The scheduler of one entity under the scheduling the event loop gives:
\* time passes, a timer that is due runs its callback, and the process query
\* of an attempt settles.  Mutations, manual captures, process starts and
\* exits, and a rejected process query may or may not happen.  A call that
\* has returned is dropped from the table of calls, so an attempt may
\* reschedule itself any number of times; limits.attempts bounds the calls
\* in the table at one time.
LiveGames == {"g1"}

\* the call of attempt a has returned: it leaves the table of calls
Forget(a) ==
  /\ att[a].pc = "done"
  /\ att' = [i \in 1..(Len(att) - 1) |-> IF i < a THEN att[i] ELSE att[i + 1]]
  /\ UNCHANGED <<schedVars, last, failedEarly, snapGate, envVars, stateVars,
                 restoreVars, auxVars>>

NextLive ==
  \/ \E g \in LiveGames : SetProcess(g)
  \/ Tick
  \/ StartMonitoring
  \/ \E g \in LiveGames, op \in SchedOps : Mutation(g, op)
  \/ \E t \in timers : TimerFire(t)
  \/ \E g \in LiveGames : CaptureNow(g)
  \/ \E a \in DOMAIN att : CheckProcess(a)
  \/ \E a \in DOMAIN att : CheckProcessFails(a)
  \/ \E a \in DOMAIN att : Forget(a)

Fairness ==
  /\ WF_vars(Tick)
  /\ WF_vars(\E t \in timers : TimerFire(t))
  /\ WF_vars(\E a \in DOMAIN att : CheckProcess(a) \/ CheckProcessFails(a))
  /\ WF_vars(\E a \in DOMAIN att : Forget(a))

SpecLive == InitSched /\ [][NextLive]_vars /\ Fairness

\* =============================================================== properties
\* the attempt record that attempt a has after this step
AfterStep(a) == IF att'[a].pc = "done" THEN last' ELSE att'[a]

\* attempt r has emitted a sync:event of this type
Emitted(r, kind) == \E i \in DOMAIN r.ev : r.ev[i] = kind

ProcessGate ==
  /\ \A r \in Known :
       (r.enumerated \/ r.archived \/ r.snap # 0 \/ r.storeWrites > 0)
         => r.checked = "closed"
  /\ \A r \in Known : r.checked = "running" => r.pc = "done"
  /\ \A id \in DOMAIN snapGate : snapGate[id] = "closed"

\* an attempt on a directory that holds files was stopped at the gate
ProcessGateWitness ==
  /\ last.pc = "done" /\ last.checked = "running"
  /\ liveDir[last.game] # NoDir /\ liveDir[last.game] # {}
  /\ ~last.enumerated

\* ----------------------------------------------------------------------- C4
\* C4: when a timer-started attempt finds the process running, the step
\* emits one informational event, creates no snapshot, and leaves exactly
\* one timer pending for the entity, newly scheduled for the full settle
\* window.
RescheduleWhenRunning ==
  [][\A a \in DOMAIN att :
       (att[a].pc = "check" /\ ~att[a].manual /\ procRunning[att[a].game]
        /\ att'[a] # att[a])
       => LET g == att[a].game
          IN /\ att'[a].pc = "done"
             /\ last'.checked = "running"
             /\ last'.ev = <<"info">>
             /\ last'.snap = 0 /\ ~last'.enumerated
             /\ archives' = archives
             /\ \E t \in timers' :
                  /\ {u \in timers' : u.game = g} = {t}
                  /\ t.remaining = SettleTicks
                  /\ \A u \in timers : u.id # t.id
                  /\ pendingTimers'[g] = t.id]_vars

\* a timer-started attempt was rescheduled while an event was waiting
RescheduleWhenRunningWitness ==
  /\ last.pc = "done" /\ ~last.manual /\ last.checked = "running"
  /\ last.ev = <<"info">>
  /\ \E t \in TimersOf(last.game) : t.remaining = SettleTicks

\* ----------------------------------------------------------------------- C5
\* C5: a manual capture whose process check reports "running" fails with an
\* error to the caller; the step creates no snapshot, writes nothing to a
\* backend and leaves latestLocalSave and latestRemoteSave as they were.
ManualCaptureWhileRunning ==
  [][\A a \in DOMAIN att :
       (att[a].pc = "check" /\ att[a].manual /\ att'[a] # att[a]
        /\ AfterStep(a).checked = "running")
       => /\ att'[a].pc = "done"
          /\ last'.err = "running"
          /\ last'.snap = 0 /\ last'.uploads = 0 /\ last'.storeWrites = 0
          /\ ~last'.wroteState
          /\ UNCHANGED <<latestLocalSave, latestRemoteSave, store,
                         archives>>]_vars

\* a manual capture was refused because the process was running
ManualCaptureWhileRunningWitness ==
  /\ last.pc = "done" /\ last.manual
  /\ last.checked = "running" /\ last.err = "running"

\* ----------------------------------------------------------------------- C6
\* C6: both backends write artifact, metadata and latest pointer in that
\* order: a stored metadata document has its artifact, the latest pointer
\* names a snapshot whose metadata is stored, and when the artifact or the
\* metadata write fails the latest pointer is not written for that snapshot
\* and still holds the record stored before.
UploadOrderKeepsLatest ==
  /\ \A b \in Backends, g \in Games :
       LET s == store[b][g]
       IN /\ s.metadata \subseteq s.artifacts
          /\ s.latest # 0 => s.latest \in s.metadata
          /\ s.latest \notin failedEarly
  /\ \A r \in Known :
       r.failedAt \in {"upArtifact", "upMeta"} =>
         /\ store[r.backend][r.game].latest # r.snap
         /\ Len(att) = 1 => store[r.backend][r.game].latest = r.prevLatest

\* an upload failed before the latest pointer while an earlier record was
\* stored, and the pointer still names the earlier record
UploadOrderKeepsLatestWitness ==
  /\ last.pc = "done"
  /\ last.failedAt \in {"upArtifact", "upMeta"}
  /\ last.prevLatest = SnapId(0)
  /\ store[last.backend][last.game].latest = SnapId(0)

\* ----------------------------------------------------------------------- C7
\* C7: with monitoring active, the process closed and a backend available,
\* one mutation followed by a quiet settle window ends in exactly one new
\* snapshot and one upload, after which both the stored latest pointer and
\* the entity's latestRemoteSave in the application state name the new
\* snapshot.
EndToEndCapture ==
  (/\ nEvents = 1 /\ Len(att) = 1
   /\ last.pc = "done" /\ ~last.manual
   /\ last.checked = "closed" /\ last.err = "none"
   /\ last.backend # "none")
  => /\ DOMAIN archives \ {SnapId(0)} = {last.snap}
     /\ last.uploads = 1
     /\ store[last.backend][last.game].latest = last.snap
     /\ latestRemoteSave[last.game] = last.snap

BothErrorsSurfaced ==
  (lastRestore.pc = "done" /\ lastRestore.rollback = "failed")
  => {lastRestore.primary, "rollback"} \subseteq lastRestore.thrown

\* ---------------------------------------------------------------------- C10
\* C10: restoreLatestRemote fails before it creates the scratch workspace or
\* touches the live directory when the entity has no remote backup record or
\* its process is running: a call that has a workspace, a safety copy or a
\* write to the live directory had a record and saw the process closed, and
\* a call without record or with the process running has thrown with the
\* live directory as it was.
RestorePreconditions ==
  /\ \A r \in KnownRestores :
       (r.workspace \/ r.touched \/ r.safety # NoDir)
         => (r.record # 0 /\ r.checked = "closed")
  /\ \A r \in KnownRestores :
       (r.pc # "none" /\ (r.record = 0 \/ r.checked = "running"))
         => /\ r.pc = "done"
            /\ r.thrown = {IF r.record = 0 THEN "noBackup" ELSE "running"}
            /\ ~r.workspace /\ ~r.touched /\ r.safety = NoDir
            /\ r.alone => r.after = r.pre

\* a restore over an existing directory was refused: the process was running
RestorePreconditionsWitness ==
  /\ lastRestore.pc = "done"
  /\ lastRestore.thrown = {"running"}
  /\ lastRestore.pre # NoDir /\ lastRestore.pre # {}

\* ---------------------------------------------------------------------- C11
\* C11: catalog merge non-downgrade.  Every game that was in the state with
\* latestLocalSave = S and is in the merged-in catalog, where the field is
\* null or missing, has latestLocalSave = S in the state after
\* mergeCloudCatalog.
MergeKeepsLocalSave ==
  lastMerge.merged =>
    \A g \in lastMerge.had \cap lastMerge.cat.ids :
      lastMerge.cat.latestLocalSave[g] = 0 =>
        (g \in stateGames /\ latestLocalSave[g] = lastMerge.local[g])

\* a game with a local save was merged with a catalog entry without one
MergeKeepsLocalSaveWitness ==
  /\ lastMerge.merged
  /\ \E g \in lastMerge.had \cap lastMerge.cat.ids :
       /\ lastMerge.local[g] # 0
       /\ lastMerge.cat.latestLocalSave[g] = 0
       /\ latestLocalSave[g] = lastMerge.local[g]

\* ---------------------------------------------------------------------- C12
\* C12: a capture that matches zero files is reported by path: a manual
\* capture returns the error to its caller; an automatic attempt raises no
\* error, emits a warning event and creates no snapshot.
ZeroFilesByPath ==
  \A r \in Known :
    r.err = "noFiles" =>
      /\ r.pc = "done" /\ r.snap = 0
      /\ ~r.unhandled
      /\ ~r.manual => Emitted(r, "warning")

\* ---------------------------------------------------------------------- C13
\* C13: when zero files match, the capture aborts before a fingerprint is
\* computed and before an archive is written: no snapshot event, no call of
\* onSnapshot (no state written), no upload to any backend.
ZeroFilesAbortEarly ==
  \A r \in Known :
    r.matched = 0 =>
      /\ r.pc = "done" /\ r.err = "noFiles"
      /\ ~r.hashed /\ ~r.archived /\ r.snap = 0
      /\ ~Emitted(r, "snapshot")
      /\ ~r.wroteState /\ r.backend = "none"
      /\ r.uploads = 0 /\ r.storeWrites = 0

\* an attempt found an empty directory while a backend was available
ZeroFilesAbortEarlyWitness ==
  /\ last.pc = "done" /\ last.matched = 0 /\ last.err = "noFiles"
  /\ (driveAuth \/ offlineDir)
  /\ liveDir[last.game] = {}

\* ---------------------------------------------------------------------- C14
\* C14: every failure inside an automatic capture attempt (process query,
\* missing watch root, zero files, archive, upload) becomes a warning event
\* and never leaves the timer callback as an unhandled error.
AutomaticFailuresRecovered ==
  \A r \in Known :
    (~r.manual /\ r.err # "none") =>
      /\ ~r.unhandled
      /\ Emitted(r, "warning")

\* ---------------------------------------------------------------------- C15
\* C15: a snapshot goes to the backend its capabilities select: the remote
\* store when it is authenticated, else the local mirror when a mirror
\* directory is configured; with neither, nothing is uploaded and a warning
\* event is emitted.
BackendByCapability ==
  \A r \in Known :
    r.snap # 0 =>
      /\ r.backend = IF driveAuth THEN "drive"
                     ELSE IF offlineDir THEN "mirror" ELSE "none"
      /\ \A b \in Backends \ {r.backend} :
           r.snap \notin store[b][r.game].artifacts
                           \cup store[b][r.game].metadata
                           \cup {store[b][r.game].latest}
      /\ r.backend = "none" =>
           (r.uploads = 0 /\ r.storeWrites = 0 /\ Emitted(r, "warning"))
      /\ r.backend # "none" => r.uploads = 1

\* with both backends available a snapshot was uploaded to the remote store
BackendByCapabilityWitness ==
  /\ driveAuth /\ offlineDir
  /\ last.pc = "done" /\ last.snap # 0 /\ last.err = "none"
  /\ last.backend = "drive"
  /\ store["drive"][last.game].latest = last.snap

\* ---------------------------------------------------------------------- C16
\* C16: the retention sweep removes an entry only if its last-modified time
\* is older than now minus retentionDays, and a sweep that ran to its end has
\* removed every such entry and kept every newer one (10 days old with a
\* 7-day window is deleted, 1 day old is kept).
SweepSelectsByAge ==
  /\ \A e \in DOMAIN sweep.entries :
       e \notin sweep.present => sweep.entries[e] < NowSec - 7 * DaySec
  /\ (sweep.pc = "done" /\ sweep.err = "none") =>
       \A e \in DOMAIN sweep.entries :
         sweep.entries[e] < NowSec - 7 * DaySec => e \notin sweep.present

\* a sweep over a 10-day-old, a 7-day-old and a 1-day-old entry has ended:
\* the first is gone, the other two are kept
SweepSelectsByAgeWitness ==
  /\ sweep.pc = "done" /\ sweep.err = "none"
  /\ \E e \in DOMAIN sweep.entries :
       sweep.entries[e] = NowSec - 10 * DaySec /\ e \notin sweep.present
  /\ \E e \in DOMAIN sweep.entries :
       sweep.entries[e] = NowSec - 1 * DaySec /\ e \in sweep.present
  /\ \E e \in DOMAIN sweep.entries :
       sweep.entries[e] = NowSec - 7 * DaySec /\ e \in sweep.present

\* ---------------------------------------------------------------------- C17
\* C17: an error while inspecting or removing one entry does not stop the
\* sweep: when the sweep ends every other entry has been evaluated and, if
\* expired, removed.
SweepSurvivesEntryError ==
  (sweep.pc = "done" /\ sweep.err \in {"stat", "rm"}) =>
    \A e \in DOMAIN sweep.entries \ {sweep.failed} :
      /\ e \in sweep.evaluated
      /\ sweep.entries[e] < CutoffSec => e \notin sweep.present

\* ---------------------------------------------------------------------- C18
\* C18: fingerprint determinism.  For a fixed set of matched files (path,
\* modification time, bytes) collectFiles followed by hashFiles gives the
\* same fingerprint for every order in which the directory is listed.
FingerprintDeterministic ==
  Cardinality(fp.seen) <= 1

\* ---------------------------------------------------------------------- C19
\* C19: restoreLatestRemote never deletes its scratch workspace: once
\* created it exists in every later state of the call and after its return,
\* on success and on failure, together with the downloaded archive and the
\* safety copy, if any; a successful call returns the restore timestamp and
\* the path of the workspace.
WorkspaceLeftBehind ==
  \A r \in KnownRestores :
    /\ r.created => r.workspace
    /\ (r.safety # NoDir \/ r.downloaded) => r.workspace
    /\ (r.pc = "done" /\ r.thrown = {}) =>
         /\ r.created /\ r.downloaded
         /\ r.result = [restoredAt |-> "now", tempBackupDir |-> "tempDir"]
    /\ (r.pc # "done" \/ r.thrown # {}) => r.result.tempBackupDir = "none"

\* a restore over an existing directory succeeded and returned its workspace
WorkspaceLeftBehindWitness ==
  /\ lastRestore.pc = "done" /\ lastRestore.thrown = {}
  /\ lastRestore.workspace /\ lastRestore.safety # NoDir
  /\ lastRestore.result.tempBackupDir = "tempDir"

\* ---------------------------------------------------------------------- C20
\* C20: a cancelled debounce timer never starts a capture attempt.  A step
\* that replaces or deletes the handle of an entity (a newer mutation, a
\* reschedule, captureNow) leaves the timer with the old handle unscheduled;
\* right after captureNow no timer is pending for the entity; and a timer
\* that fires is the one the handle map names, not an instance that was
\* cancelled.
CancelledNeverFires ==
  [][/\ \A t \in timers :
          pendingTimers'[t.game] # pendingTimers[t.game]
            => \A u \in timers' : u.id # t.id
     /\ (Len(att') > Len(att) /\ att'[Len(att')].manual)
          => \A u \in timers' : u.game # att'[Len(att')].game
     /\ (Len(att') > Len(att) /\ ~att'[Len(att')].manual)
          => \E t \in timers :
               /\ t.remaining = 0
               /\ t.game = att'[Len(att')].game
               /\ t.id = pendingTimers[t.game]
               /\ timers' = timers \ {t}]_vars

\* a timer that stood for two coalesced events was cancelled by a manual
\* capture, whose attempt is in flight with no timer pending
CancelledNeverFiresWitness ==
  /\ Cardinality(dropped) = 2
  /\ \E a \in InFlight : att[a].manual /\ TimersOf(att[a].game) = {}

\* ---------------------------------------------------------------------- C21
\* C21: an automatic capture attempt that fails for a reason other than the
\* process running is not retried: the step in which it fails schedules no
\* timer and leaves the handle map as it was, and when it was the only
\* attempt and no mutation event has arrived since its timer fired, no timer
\* is pending for the entity.
NoRetryAfterFailure ==
  [][\A a \in DOMAIN att :
       (/\ att[a].pc # "done" /\ ~att[a].manual
        /\ att'[a].pc = "done"
        /\ last'.err \notin {"none", "running"})
       => /\ timers' = timers
          /\ pendingTimers' = pendingTimers
          /\ (Len(att) = 1 /\ servedEvents = 1..nEvents)
               => \A t \in timers' : t.game # att[a].game]_vars

\* the upload of an automatic attempt failed and no timer is pending
NoRetryAfterFailureWitness ==
  /\ last.pc = "done" /\ ~last.manual /\ last.err = "upload"
  /\ nEvents = 1
  /\ TimersOf(last.game) = {}

\* ---------------------------------------------------------------------- C22
\* the process of entity g is closed from some moment on
ClosedForGood(g) == <>[](~procRunning[g])

\* a mutation of g was observed and its timer is pending
MutationPending(g) == \E t \in TimersOf(g) : t.fresh # {}

\* a capture attempt of g has passed its process check, which reported not
\* running
SawClosed(g) ==
  \E a \in InFlight : att[a].game = g /\ att[a].checked = "closed"

\* no manual capture is ever requested, and no process query is rejected
NoManualCapture == [](\A a \in DOMAIN att : ~att[a].manual)
NoQueryRejected == [](last.err # "oracle")

SafetyCopyFirst ==
  \A r \in KnownRestores :
    /\ (r.hadLive /\ (r.pc \notin {"none", "check", "workspace", "safety",
                                    "done"}
                       \/ r.downloaded \/ r.touched \/ r.primary # "none"))
         => r.safety # NoDir
    /\ (r.safety # NoDir /\ r.alone) => r.safety = r.pre
    /\ (r.pc = "done" /\ r.hadLive /\ r.safety = NoDir)
         => /\ r.thrown = {"io"}
            /\ ~r.downloaded /\ ~r.touched /\ r.primary = "none"
            /\ r.alone => r.after = r.pre

\* a call that copied a directory of two files has downloaded the archive
\* and removed an entry of the live directory
SafetyCopyFirstWitness ==
  \E i \in RestoresInFlight :
    /\ rst[i].hadLive /\ Cardinality(rst[i].safety) = 2
    /\ rst[i].safety = rst[i].pre
    /\ rst[i].downloaded /\ rst[i].touched
    /\ Cardinality(liveDir[rst[i].game]) = 1

\* ---------------------------------------------------------------------- C24
\* C24: when no live save directory exists when the restore looks for it, no
\* safety copy is made and a failing download or extraction is followed by
\* no rollback: the call never clears the live path or copies into it on
\* behalf of a rollback, and it throws the error of the failed step.  (No
\* other call writing the path, a directory absent at the start of the call
\* is absent when the call looks for it.)
NoLiveNoRollback ==
  \A r \in KnownRestores :
    /\ (r.created /\ ~r.hadLive) =>
         /\ r.safety = NoDir
         /\ r.pc \notin {"safety", "rbOpen", "rbClear", "rbRead", "rbCopy"}
         /\ r.rollback = "none"
         /\ (r.pc = "done" /\ r.primary # "none") => r.thrown = {r.primary}
    /\ (r.created /\ r.pre = NoDir /\ r.alone) => ~r.hadLive

\* with no live directory at the start, the extraction failed after it had
\* written one file of two; the call threw that error with no rollback
NoLiveNoRollbackWitness ==
  /\ lastRestore.pc = "done" /\ lastRestore.pre = NoDir
  /\ ~lastRestore.hadLive /\ lastRestore.created
  /\ lastRestore.primary = "extract" /\ lastRestore.thrown = {"extract"}
  /\ Cardinality(lastRestore.after) = 1 /\ lastRestore.after # NoDir

\* ---------------------------------------------------------------------- C25
\* a capture attempt that is enumerating, hashing or archiving
Capturing(a) == att[a].pc \in {"collect", "archive"}
\* a restore between the clearing of the live directory and the end of the
\* extraction
Rewriting(i) == rst[i].pc \in {"clear", "extract"}

\* C25: nothing serializes captures and restores of the same entity.  A
\* capture and a restore can be started whatever calls are in flight on the
\* entity, and every step of a call in flight can be taken whatever the
\* other calls are doing; so a capture enumerates or archives the live
\* directory while a restore of the entity is clearing or rewriting it, and
\* two restores overlap.
NothingSerializes ==
  /\ \A g \in OverlapGames :
       /\ Len(att) < limits.attempts => ENABLED CaptureNow(g)
       /\ Len(rst) < limits.restores => ENABLED RestoreLatestRemote(g)
  /\ \A t \in timers :
       (t.remaining = 0 /\ Len(att) < limits.attempts) => ENABLED TimerFire(t)
  /\ \A a \in InFlight :
       /\ att[a].pc = "collect" => ENABLED CollectFiles(a)
       /\ att[a].pc = "archive" => ENABLED Archive(a)
  /\ \A i \in RestoresInFlight :
       /\ rst[i].pc = "openLive" => ENABLED RestoreOpenLive(i)
       /\ rst[i].pc = "clear" =>
            \A f \in rst[i].todo : ENABLED RestoreRemove(i, f)
       /\ rst[i].pc = "extract" =>
            \A x \in rst[i].todo : ENABLED RestoreExtract(i, x)

\* a capture is enumerating or archiving the directory of which one restore
\* has removed an entry and is not done extracting, while a second restore
\* of the entity is clearing or extracting too
NothingSerializesWitness ==
  \E a \in InFlight, i \in RestoresInFlight, j \in RestoresInFlight :
    /\ i # j
    /\ Capturing(a) /\ Rewriting(i) /\ Rewriting(j)
    /\ att[a].game = rst[i].game /\ rst[j].game = rst[i].game
    /\ rst[i].touched
    /\ liveDir[att[a].game] # rst[i].pre

\* ---------------------------------------------------------------------- C27
\* C27: the snapshot event of a capture is emitted only after the upload to
\* the backup store and the update of the application state for that
\* snapshot have completed: an attempt that has emitted its snapshot event
\* while a backend is available has written artifact, metadata and latest
\* pointer, and has recorded the upload in the state.
SnapshotEventAfterUpload ==
  \A r \in Known :
    (Emitted(r, "snapshot") /\ r.backend # "none") =>
      /\ r.storeWrites = Len(UploadOrder) - 1
      /\ r.pc \in {"persist", "done"}

\* C26: overlapping state-changing operations do not lose each other's
\* updates: once a capture has returned its snapshot and no capture and no
\* poll is in flight, the state in memory and the persisted state document
\* name that snapshot as the entity's latest local save, and the state in
\* memory names it as the latest remote save when the upload recorded one.
Settled ==
  /\ PollsInFlight = {}
  /\ InFlight = {}
  /\ last.pc = "done"
  /\ last.err = "none"
  /\ last.snap # 0

NoLostUpdate ==
  Settled =>
    /\ latestLocalSave[last.game] = last.snap
    /\ RecordsRemote(last.backend) => latestRemoteSave[last.game] = last.snap
    /\ savedState.latestLocalSave[last.game] = last.snap

\* C28: when the merged-in catalog carries an entity list and a watch-root
\* list, mergeCloudCatalog replaces both wholesale: when it returns, the ids
\* of the entities in memory are the ids of the catalog (entities known only
\* locally are gone), the watch roots are the catalog's, and the durable
\* fields other than latestLocalSave are the catalog's; the entity list and
\* the watch roots stay so through the rest of the handler.
MergeReplacesWholesale ==
  (lastMerge.merged /\ lastMerge.cat.hasGames /\ lastMerge.cat.hasRoots) =>
    /\ lastMerge.after.ids = lastMerge.cat.ids
    /\ lastMerge.after.scanRoots = lastMerge.cat.scanRoots
    /\ \A g \in lastMerge.cat.ids :
         lastMerge.after.latestRemoteSave[g] =
           lastMerge.cat.latestRemoteSave[g]
    /\ stateGames = lastMerge.cat.ids
    /\ scanRoots = lastMerge.cat.scanRoots

MergeReplacesWholesaleWitness ==
  /\ lastMerge.merged
  /\ lastMerge.cat.hasGames
  /\ lastMerge.cat.hasRoots
  /\ lastMerge.had \ lastMerge.cat.ids # {}
  /\ lastMerge.cat.ids \ lastMerge.had # {}
  /\ stateGames = lastMerge.cat.ids
  /\ scanRoots = ForeignRoots

\* C29: every catalog document written to the remote store or to the local
\* mirror has the volatile runtime fields of every entity cleared
\* (currentlyRunning false, sessionStartedAt null), whatever the runtime
\* state of the entities when it is written.
CatalogClearsRuntime ==
  \A b \in Backends :
    remoteCatalog[b].exists =>
      \A g \in Games : remoteCatalog[b].session[g] = ClearedSession

CatalogClearsRuntimeWitness ==
  /\ ~lastMerge.merged
  /\ \E g \in stateGames : session[g].currentlyRunning
  /\ \A b \in Backends :
       /\ remoteCatalog[b].exists
       /\ remoteCatalog[b].ids = stateGames
       /\ \A g \in Games : ~remoteCatalog[b].session[g].currentlyRunning

\* C30: syncCatalog has upsert-by-name semantics: after any sequence of
\* syncCatalog calls that do not overlap, once a call has returned, exactly
\* one document with the catalog name exists in the library folder and its
\* content is the payload of the last call that returned (the first call
\* creates it, later calls update it in place).
CatalogDocuments == {library[i] : i \in Matches(CatalogName)}

UpsertByName ==
  (sync.pc = "idle" /\ sync.returned > 0) =>
    /\ Cardinality(Matches(CatalogName)) = 1
    /\ \A f \in CatalogDocuments : f.content = Stringify(sync.lastPayload)

UpsertByNameWitness ==
  /\ sync.pc = "idle"
  /\ sync.returned = 2
  /\ Len(library) = 1
  /\ \E f \in CatalogDocuments : f.content = Stringify(sync.lastPayload)

\* C32 (as stated): getProcessState does not fail its caller when the
\* enriched process query fails.
EnrichedFailureNeverFails == ps.enrichedFailed => ps.pc # "rejected"

\* C32 (amended): when the enriched query fails, getProcessState falls back
\* to the boolean-only query and returns {running, startedAt: null} with what
\* that query saw; it fails its caller only when the boolean-only query fails
\* too; an empty lookup name yields {running: false, startedAt: null}
\* without a query.
FallbackOnEnrichedFailure ==
  /\ ps.pc = "rejected" => (ps.enrichedFailed /\ ps.fallbackFailed)
  /\ (ps.pc = "returned" /\ ps.enrichedFailed) =>
       (ps.result = [running |-> ps.saw, startedAt |-> 0] /\ ps.queries = 2)
  /\ (ps.pc = "returned" /\ normalizeProcessLookupName(ps.name) = <<>>) =>
       (ps.result = NoState /\ ps.queries = 0)

FallbackOnEnrichedFailureWitness ==
  /\ ps.pc = "returned"
  /\ ps.enrichedFailed
  /\ ps.result = [running |-> TRUE, startedAt |-> 0]

\* C33: file selection follows glob semantics on the relative path, without
\* case: `**` matches any sequence of characters including separators, `*`
\* any sequence within one path segment, `?` exactly one character; an empty
\* selector list or the match-everything selector selects every file.
RECURSIVE GlobTokens(_)
GlobTokens(pattern) ==
  IF pattern = <<>> THEN <<>>
  ELSE IF IsPrefix(<<"*", "*">>, pattern)
  THEN <<[kind |-> "run", char |-> ""]>>
         \o GlobTokens(SubSeq(pattern, 3, Len(pattern)))
  ELSE IF pattern[1] = "*"
  THEN <<[kind |-> "segment", char |-> ""]>> \o GlobTokens(Tail(pattern))
  ELSE IF pattern[1] = "?"
  THEN <<[kind |-> "any", char |-> ""]>> \o GlobTokens(Tail(pattern))
  ELSE <<[kind |-> "lit", char |-> pattern[1]]>> \o GlobTokens(Tail(pattern))

GlobSelects(path, patterns) ==
  \/ Len(patterns) = 0
  \/ \E i \in DOMAIN patterns :
       \/ patterns[i] = MatchEverything
       \/ Test(GlobTokens(patterns[i]), path)

GlobSemantics ==
  gl.pc = "done" => gl.selected = GlobSelects(gl.path, gl.patterns)

\* C34: a manual capture that fails does not lose a pending automatic
\* capture: when captureNow cancelled a debounce timer and then failed, a
\* timer is pending for the entity again or a capture of it is in flight, so
\* that the mutations already observed are captured without a new mutation.
PendingCaptureKept ==
  (last.pc = "done" /\ last.manual /\ last.err # "none"
     /\ last.cancelled # {}) =>
    \/ pendingTimers[last.game] # 0
    \/ \E a \in InFlight : att[a].game = last.game

\* C35: after stop() has completed no automatic capture attempt starts until
\* start() is called again: while the service is stopped, every capture
\* attempt that starts is a manual one.
NoCaptureAfterStop ==
  [][(~monitoring /\ Len(att') > Len(att)) => att'[Len(att')].manual]_vars

\* C36: once every capture of an entity has finished uploading, the
\* latestRemoteSave of the entity in the state is the record the latest
\* pointer of the backend holds, also when an automatic and a manual capture
\* of the entity overlapped.
UploadsFinished(g) ==
  \A a \in DOMAIN att : att[a].game = g => att[a].pc \in {"persist", "done"}

RemoteMatchesPointer ==
  \A g \in Games :
    UploadsFinished(g) =>
      latestRemoteSave[g] =
        store[ChooseBackend(driveAuth, offlineDir)][g].latest

\* C37: a failed restore never leaves partially extracted archive content
\* in the live save path: after the error the live path holds what it held
\* before the attempt and, when no live save directory existed before, the
\* live path is absent or empty.
NoPartialRestore ==
  (lastRestore.pc = "done" /\ lastRestore.thrown # {} /\ lastRestore.alone) =>
    IF lastRestore.pre # NoDir
    THEN lastRestore.after = lastRestore.pre
    ELSE lastRestore.after \in {NoDir, {}}

\* C39: a restore does not by itself cause a new backup: once a restore of
\* a monitored entity has succeeded and nothing else has written to the save
\* directory, no snapshot of the entity has been created or uploaded, and
\* the latest pointer of the backend and the latestRemoteSave of the state
\* still name the record that was restored.
RestoreCausesNoBackup ==
  (lastRestore.pc = "done" /\ lastRestore.thrown = {}) =>
    LET g == lastRestore.game
    IN /\ \A a \in DOMAIN att : att[a].game = g => ~att[a].archived
       /\ store[ChooseBackend(driveAuth, offlineDir)][g].latest
            = lastRestore.record
       /\ latestRemoteSave[g] = lastRestore.record

\* C38: an automatic capture uses the current configuration of its entity:
\* the process it checks, the root it reads and the selectors it applies are
\* those a manual capture issued at the moment it starts would use, also
\* after game:update has changed them.
AutomaticUsesCurrentConfig ==
  \A r \in Known : (r.pc # "none" /\ ~r.manual) => r.config = r.current

\* a step in which the state's entry of g goes from running to closed
SessionCloses(g) ==
  session[g].currentlyRunning /\ ~session'[g].currentlyRunning

\* whole seconds of d half seconds, never negative
WholeSeconds(d) == IF d <= 0 THEN 0 ELSE (d + 1) \div 2

\* C31: the poll changes the accumulated play time of an entity only on a
\* running-to-closed transition, where it adds max(0, now - sessionStartedAt)
\* in whole seconds (0 when the start is unknown) and clears the running
\* flag and the session start; over any sequence of polls totalPlaySeconds
\* never decreases.
PollAddsElapsedOnClose ==
  [][\A g \in Games :
       /\ totalPlaySeconds'[g] >= totalPlaySeconds[g]
       /\ totalPlaySeconds'[g] # totalPlaySeconds[g] => SessionCloses(g)
       /\ SessionCloses(g) =>
            /\ session'[g] = ClearedSession
            /\ \E c \in PollCallers :
                 /\ poll[c].pc = "query"
                 /\ poll'[c].pc = "save"
                 /\ totalPlaySeconds'[g] = totalPlaySeconds[g] +
                      (IF session[g].sessionStartedAt = 0 THEN 0
                       ELSE WholeSeconds(poll[c].now
                                           - session[g].sessionStartedAt))
    ]_vars

\* C40: the play time of one session is counted exactly once: every
\* running-to-closed transition of an entity adds one session to what its
\* totalPlaySeconds includes, and nothing else changes that number, also
\* when two polls overlap or game:update runs in between.
SessionCountedOnce ==
  [][\A g \in Games :
       sessionsCounted'[g] =
         sessionsCounted[g] + (IF SessionCloses(g) THEN 1 ELSE 0)]_vars
====
